---- MODULE Spec2Model ----
(***************************************************************************)
(* Verification model of the pybricks motor observer (lib/pbio/src/        *)
(* observer.c) and of the blocking task wrappers pb_remote_connect         *)
(* (pybricks/pupdevices/pb_type_pupdevices_remote.c) and wait              *)
(* (pybricks/common/pb_type_device.h), of the tacho setup                  *)
(* (lib/pbio/src/tacho.c), of the light animations and their process      *)
(* (lib/pbio/src/light/animation.c) and of the timers of the btstack run   *)
(* loop as test_btstack_run_loop_contiki_timer drives them.                *)
(***************************************************************************)
EXTENDS Integers, Sequences, FiniteSets, TLC

VARIABLES
    obs,        \* pbio_observer_t: angle, speed, current, speed_numeric,
                \* stalled, stall_start, differentiator
    now,        \* wall time handed to the observer, a uint32_t
    hist,       \* history: the observer calls made so far, with their inputs
    q,          \* the answer of the last pbio_observer_is_stalled call
    pc,         \* position of the blocking wrapper that is running
    task,       \* pb_remote_singleton.task: status and cancel request
    iodev,      \* the I/O device operation polled by wait()
    clock,      \* mp_hal_ticks_ms()
    frame,      \* locals of the running wrapper: start, timeout, exception
    trace,      \* history: events of the wrapper call in progress
    tacho,      \* pbio_tacho_t: the entry of tachos[] that is set up
    counter,    \* the counter driver behind the tacho
    timers,     \* btstack run loop: the timers added, next to expire first
    timer_source,   \* btstack_timer_source_t by name: timeout and context
    pbio_light_animation_list_head,
    animations, \* pbio_light_animation_t by name: next_animation and timer
    pbio_light_animation_process,   \* whether the animation process runs
    etimer,     \* struct etimer of each animation: start and interval
    process_events  \* timer events posted to the animation process

obsVars == <<obs, now, hist, q>>
taskVars == <<pc, task, iodev, clock, frame, trace>>
libVars == <<tacho, counter, timers, timer_source,
             pbio_light_animation_list_head, animations,
             pbio_light_animation_process, etimer, process_events>>
vars == <<obs, now, hist, q, pc, task, iodev, clock, frame, trace, tacho,
          counter, timers, timer_source, pbio_light_animation_list_head,
          animations, pbio_light_animation_process, etimer, process_events>>

-----------------------------------------------------------------------------
(* The library objects as they are before any call: tachos[] is static and *)
(* zero, the run loop has no timer, every animation has been through       *)
(* pbio_light_animation_init.                                              *)

NULL == "NULL"

\* pbio_direction_t
PBIO_DIRECTION_CLOCKWISE == "CLOCKWISE"
PBIO_DIRECTION_COUNTERCLOCKWISE == "COUNTERCLOCKWISE"

\* animation.c, line 21
PBIO_LIGHT_ANIMATION_STOPPED == "STOPPED"

\* The animation instances and the timer sources of the run-loop test.
Animations == {"animation_1", "animation_2", "animation_3"}
TimerSources == {"timer_source", "timer_source_2", "timer_source_3"}

\* pbio_light_animation_init (the next callback is not modelled as data).
pbio_light_animation_init ==
    [next_animation |-> PBIO_LIGHT_ANIMATION_STOPPED, timer |-> "stopped"]

InitLib ==
    /\ tacho = [counts_per_degree |-> 0, counts_per_output_unit |-> 0,
                direction |-> PBIO_DIRECTION_CLOCKWISE, counter |-> NULL,
                offset |-> 0]
    /\ counter = [count |-> 0, accesses |-> 0]
    /\ timers = <<>>
    /\ timer_source = [ts \in TimerSources |->
                          [timeout |-> 0, callback_count |-> 0]]
    /\ pbio_light_animation_list_head = NULL
    /\ animations = [a \in Animations |-> pbio_light_animation_init]
    /\ pbio_light_animation_process = FALSE
    /\ etimer = [a \in Animations |-> [start |-> 0, interval |-> 0]]
    /\ process_events = <<>>

-----------------------------------------------------------------------------
(* Integer arithmetic of the C build: int32_t is 32-bit two's complement   *)
(* and wraps on overflow, division truncates toward zero.  A uint32_t is   *)
(* held as the int32_t with the same bits, so that sums and differences    *)
(* are those of int32_t and only comparisons differ.                       *)

INT32_MAX == 2147483647
INT32_MIN == -INT32_MAX - 1

\* a + b in int32_t.
AddI32(a, b) ==
    IF a > 0 /\ b > 0 /\ a > INT32_MAX - b
    THEN (a - INT32_MAX - 1) + (b - INT32_MAX - 1)
    ELSE IF a < 0 /\ b < 0 /\ a < INT32_MIN - b
    THEN (a + INT32_MAX + 1) + (b + INT32_MAX + 1)
    ELSE a + b

\* -a and a - b in int32_t.
NegI32(a) == IF a = INT32_MIN THEN a ELSE -a
SubI32(a, b) == AddI32(a, NegI32(b))

\* The low 16 bits of the product of two 16-bit values.
Mul16(x, y) == ((x % 256) * y + (((x \div 256) * y) % 256) * 256) % 65536

\* a * b in int32_t: the low 32 bits of the product, from 16-bit halves.
MulI32(a, b) ==
    LET al == a % 65536
        ah == (a \div 65536) % 65536
        bl == b % 65536
        bh == (b \div 65536) % 65536
        t0 == (al % 256) * bl
        t1 == (al \div 256) * bl
        s == t0 + (t1 % 256) * 256
        lo == s % 65536
        hi == ((s \div 65536) + (t1 \div 256) + Mul16(ah, bl) + Mul16(al, bh))
                  % 65536
    IN IF hi >= 32768 THEN (hi - 65536) * 65536 + lo ELSE hi * 65536 + lo

\* C's a / b on integers: the quotient truncated toward zero (b is never
\* INT32_MIN: the divisors are model coefficients and small constants).
CDiv(a, b) ==
    LET d == IF b < 0 THEN -b ELSE b
        m == IF a = INT32_MIN THEN ((INT32_MAX - d + 1) \div d) + 1
             ELSE (IF a < 0 THEN -a ELSE a) \div d
    IN IF (a < 0) = (b < 0) THEN m ELSE -m

\* int32_t product and quotient as observer.c writes them: PRESCALE * x / d.
PrescaleDiv(prescale, x, d) == CDiv(MulI32(prescale, x), d)

\* Unsigned comparison a > b of two uint32_t.
GreaterU32(a, b) ==
    IF (a < 0) = (b < 0) THEN a > b ELSE a < 0

-----------------------------------------------------------------------------
(* observer.c, lines 15-25                                                 *)

MAX_NUM_SPEED == 2500000
MAX_NUM_ACCELERATION == 2500000
MAX_NUM_CURRENT == 30000
MAX_NUM_VOLTAGE == 12000
MAX_NUM_TORQUE == 1000000
PRESCALE_SPEED == 858
PRESCALE_ACCELERATION == 858
PRESCALE_CURRENT == 71582
PRESCALE_VOLTAGE == 178956
PRESCALE_TORQUE == 2147

\* pbio_dcmotor_actuation_t
PBIO_DCMOTOR_ACTUATION_COAST == "COAST"
PBIO_DCMOTOR_ACTUATION_BRAKE == "BRAKE"
PBIO_DCMOTOR_ACTUATION_VOLTAGE == "VOLTAGE"

\* The calibration constants (pbio_observer_model_t) of a servo motor.
model_servo ==
    [ d_angle_d_speed |-> 190667,
      d_speed_d_speed |-> 1072,
      d_current_d_speed |-> -343200,
      d_angle_d_current |-> 5000000,
      d_speed_d_current |-> 7158,
      d_current_d_current |-> 1431640,
      d_angle_d_voltage |-> 20000000,
      d_speed_d_voltage |-> 8948,
      d_current_d_voltage |-> 596520,
      d_angle_d_torque |-> -3000000,
      d_speed_d_torque |-> -10735,
      d_current_d_torque |-> 500000,
      d_voltage_d_torque |-> 107350,
      d_torque_d_voltage |-> 3579,
      d_torque_d_speed |-> 1792,
      d_torque_d_acceleration |-> 261006,
      torque_friction |-> 20000 ]

\* The calibration constants of a motor type with a high voltage gain, for
\* which the weighted sums of an update exceed the numeric bounds.
model_high_gain ==
    [ model_servo EXCEPT !.d_speed_d_voltage = 400,
                         !.d_current_d_voltage = 30000 ]

\* The motor types an observer is set up for.
Models == [ servo |-> model_servo, high_gain |-> model_high_gain ]

\* obs->model: the calibration constants of the observer's motor type.
model == Models[obs.model]

\* obs->settings
settings ==
    [ stall_speed_limit |-> 20000,
      stall_time |-> 2,
      feedback_gain |-> 2 ]

\* pbio_int_math_clamp: value limited to [-abs_max, abs_max].
pbio_int_math_clamp(value, abs_max) ==
    IF value > abs_max THEN abs_max
    ELSE IF value < -abs_max THEN -abs_max
    ELSE value

\* pbio_int_math_sign
pbio_int_math_sign(a) == IF a > 0 THEN 1 ELSE IF a < 0 THEN -1 ELSE 0

\* pbio_angle_t: whole rotations and a remainder in [0, 360000) millidegrees.
MDEG_PER_ROTATION == 360000

Angle(mdeg) ==
    [ rotations |-> mdeg \div MDEG_PER_ROTATION,
      millidegrees |-> mdeg % MDEG_PER_ROTATION ]

\* pbio_angle_add_mdeg: add a delta, carrying whole turns into rotations.
pbio_angle_add_mdeg(a, delta) ==
    LET sum == a.millidegrees + delta
    IN [ rotations |-> AddI32(a.rotations, sum \div MDEG_PER_ROTATION),
         millidegrees |-> sum % MDEG_PER_ROTATION ]

\* pbio_angle_diff_mdeg: a - b in millidegrees.
pbio_angle_diff_mdeg(a, b) ==
    (a.rotations - b.rotations) * MDEG_PER_ROTATION
        + a.millidegrees - b.millidegrees

\* pbio_control_settings_mul_by_gain: the proportional term error * gain.
pbio_control_settings_mul_by_gain(value, gain) ==
    value * gain

\* pbio_differentiator_reset: the differentiator holds the last sample.
pbio_differentiator_reset(angle) == angle

\* pbio_differentiator_get_speed: numeric derivative of the angle samples,
\* in millidegrees per second for a 5 ms sample time.
pbio_differentiator_get_speed(dif, angle) ==
    pbio_angle_diff_mdeg(angle, dif) * 200

-----------------------------------------------------------------------------
(* observer.c: the observer operations, each returning the new observer.   *)

\* Mutant: reset leaves the stall flag as it was.
pbio_observer_reset_KeepsStall(o, angle) ==
    [o EXCEPT !.angle = angle,
              !.speed = 0,
              !.current = 0,
              !.differentiator = pbio_differentiator_reset(angle)]

\* pbio_observer_reset
pbio_observer_reset(o, angle) ==
    [o EXCEPT !.angle = angle,
              !.speed = 0,
              !.current = 0,
              !.stalled = FALSE,
              !.differentiator = pbio_differentiator_reset(angle)]

\* pbio_observer_torque_to_voltage
pbio_observer_torque_to_voltage(m, desired_torque) ==
    PrescaleDiv(PRESCALE_TORQUE,
                pbio_int_math_clamp(desired_torque, MAX_NUM_TORQUE),
                m.d_voltage_d_torque)

\* Mutant: the conversion back scales with the torque prescale.
pbio_observer_voltage_to_torque_TorquePrescale(m, voltage) ==
    PrescaleDiv(PRESCALE_TORQUE,
                pbio_int_math_clamp(voltage, MAX_NUM_VOLTAGE),
                m.d_torque_d_voltage)

\* pbio_observer_voltage_to_torque
pbio_observer_voltage_to_torque(m, voltage) ==
    PrescaleDiv(PRESCALE_VOLTAGE,
                pbio_int_math_clamp(voltage, MAX_NUM_VOLTAGE),
                m.d_torque_d_voltage)

\* The three terms of pbio_observer_get_feedforward_torque, lines 197-199.
FrictionCompensation(m, rate_ref) ==
    MulI32(CDiv(m.torque_friction, 2), pbio_int_math_sign(rate_ref))

BackEmfCompensation(m, rate_ref) ==
    PrescaleDiv(PRESCALE_SPEED,
                pbio_int_math_clamp(rate_ref, MAX_NUM_SPEED),
                m.d_torque_d_speed)

AccelerationTorque(m, acceleration_ref) ==
    PrescaleDiv(PRESCALE_ACCELERATION,
                pbio_int_math_clamp(acceleration_ref, MAX_NUM_ACCELERATION),
                m.d_torque_d_acceleration)

\* Mutant: the sum of the three terms is returned without clamping.
pbio_observer_get_feedforward_torque_Unclamped(m, rate_ref, acceleration_ref) ==
    AddI32(AddI32(FrictionCompensation(m, rate_ref),
                  BackEmfCompensation(m, rate_ref)),
           AccelerationTorque(m, acceleration_ref))

\* pbio_observer_get_feedforward_torque
pbio_observer_get_feedforward_torque(m, rate_ref, acceleration_ref) ==
    pbio_int_math_clamp(
        AddI32(AddI32(FrictionCompensation(m, rate_ref),
                      BackEmfCompensation(m, rate_ref)),
               AccelerationTorque(m, acceleration_ref)),
        MAX_NUM_TORQUE)

\* Mutant: the feedback voltage is returned without clamping.
pbio_observer_get_feedback_voltage_Unclamped(o, angle) ==
    pbio_control_settings_mul_by_gain(pbio_angle_diff_mdeg(angle, o.angle),
                                      settings.feedback_gain)

\* pbio_observer_get_feedback_voltage
pbio_observer_get_feedback_voltage(o, angle) ==
    LET error == pbio_angle_diff_mdeg(angle, o.angle)
    IN pbio_int_math_clamp(
           pbio_control_settings_mul_by_gain(error, settings.feedback_gain),
           MAX_NUM_VOLTAGE)

\* Mutant: the stall condition without the speed check.
StallConditions_NoSpeedCheck(speed, voltage, feedback_voltage) ==
    /\ feedback_voltage < 0
    /\ -feedback_voltage > CDiv(MulI32(voltage, 3), 4)
    /\ voltage > MulI32(5, pbio_observer_torque_to_voltage(
                               model, CDiv(model.torque_friction, 2)))

\* The condition of the if statement in update_stall_state (lines 82-92), on
\* the values already converted to forward motion.
StallConditions(speed, voltage, feedback_voltage) ==
    /\ speed < settings.stall_speed_limit
    /\ feedback_voltage < 0
    /\ -feedback_voltage > CDiv(MulI32(voltage, 3), 4)
    /\ voltage > MulI32(5, pbio_observer_torque_to_voltage(
                               model, CDiv(model.torque_friction, 2)))

\* Mutant: a non-VOLTAGE actuation returns without clearing the flag.
StallNotModelled_KeepsFlag(o) == o

\* update_stall_state, lines 68-71: an actuation other than VOLTAGE.
StallNotModelled(o) == [o EXCEPT !.stalled = FALSE]

\* update_stall_state, lines 93-97: the conditions hold.
StallRaised(o, time) ==
    [o EXCEPT !.stall_start = IF o.stalled THEN @ ELSE time,
              !.stalled = TRUE]

\* Mutant: a failing condition leaves the latch as it was.
StallCleared_KeepsLatch(o) == o

\* update_stall_state, lines 98-101: the conditions do not hold.
StallCleared(o) == [o EXCEPT !.stalled = FALSE]

\* Mutant: the stall check reads the numeric speed.
StallSpeed_Numeric(o) == o.speed_numeric

\* update_stall_state, line 74: the speed the stall check starts from.
StallSpeed(o) == o.speed

\* Mutant: the conversion to forward motion leaves the feedback voltage as
\* it is.
update_stall_state_FeedbackKept(o, time, actuation, voltage, feedback_voltage) ==
    IF actuation # PBIO_DCMOTOR_ACTUATION_VOLTAGE
    THEN StallNotModelled(o)
    ELSE
        LET neg == voltage < 0
            speed == IF neg THEN NegI32(StallSpeed(o)) ELSE StallSpeed(o)
            v == IF neg THEN NegI32(voltage) ELSE voltage
        IN IF StallConditions(speed, v, feedback_voltage)
           THEN StallRaised(o, time)
           ELSE StallCleared(o)

\* update_stall_state
update_stall_state(o, time, actuation, voltage, feedback_voltage) ==
    IF actuation # PBIO_DCMOTOR_ACTUATION_VOLTAGE
    THEN StallNotModelled(o)
    ELSE
        LET neg == voltage < 0
            speed == IF neg THEN NegI32(StallSpeed(o)) ELSE StallSpeed(o)
            v == IF neg THEN NegI32(voltage) ELSE voltage
            fb == IF neg THEN NegI32(feedback_voltage) ELSE feedback_voltage
        IN IF StallConditions(speed, v, fb)
           THEN StallRaised(o, time)
           ELSE StallCleared(o)

\* Mutant: the friction torque follows the direction of the current, which
\* is the direction the motor is driven in.
FrictionTorque_ByCurrent(o) ==
    IF o.current > 0 THEN CDiv(model.torque_friction, 2)
    ELSE CDiv(-model.torque_friction, 2)

\* The friction torque of pbio_observer_update, line 147.
FrictionTorque(o) ==
    IF o.speed > 0 THEN CDiv(model.torque_friction, 2)
    ELSE CDiv(-model.torque_friction, 2)

\* One row of x(k+1) = Ax(k) + Bu(k) in pbio_observer_update: the int32_t sum
\* of the four prescaled terms.
ModelRow(o, voltage, torque, ds, dc, dv, dt) ==
    AddI32(AddI32(AddI32(PrescaleDiv(PRESCALE_SPEED, o.speed, ds),
                         PrescaleDiv(PRESCALE_CURRENT, o.current, dc)),
                  PrescaleDiv(PRESCALE_VOLTAGE, voltage, dv)),
           PrescaleDiv(PRESCALE_TORQUE, torque, dt))

\* Mutant: the guard never fires.
ZeroCrossing_Never(speed_next, torque) == FALSE

\* The zero-crossing guard of pbio_observer_update, lines 167-169.
ZeroCrossing(speed_next, torque) ==
    (speed_next < 0) #
        (SubI32(speed_next, PrescaleDiv(PRESCALE_TORQUE, torque,
                                        model.d_speed_d_torque)) < 0)

\* pbio_observer_update, lines 155-159: the weighted sum of the speed row.
SpeedSum(o, voltage, torque) ==
    ModelRow(o, voltage, torque, model.d_speed_d_speed,
             model.d_speed_d_current, model.d_speed_d_voltage,
             model.d_speed_d_torque)

\* pbio_observer_update, lines 160-164: the weighted sum of the current row.
CurrentSum(o, voltage, torque) ==
    ModelRow(o, voltage, torque, model.d_current_d_speed,
             model.d_current_d_current, model.d_current_d_voltage,
             model.d_current_d_torque)

\* Mutant: the current row is committed without clamping.
CurrentNext_Unclamped(o, voltage, torque) == CurrentSum(o, voltage, torque)

\* pbio_observer_update, lines 160-164: current_next.
CurrentNext(o, voltage, torque) ==
    pbio_int_math_clamp(CurrentSum(o, voltage, torque), MAX_NUM_CURRENT)

\* Mutant: the stall check is handed the voltage with the feedback added.
StallVoltage_AfterFeedback(voltage, feedback_voltage) ==
    AddI32(voltage, feedback_voltage)

\* pbio_observer_update, line 140: update_stall_state is called before line
\* 144 adds the feedback voltage, so it is handed the commanded voltage.
StallVoltage(voltage, feedback_voltage) == voltage

\* pbio_observer_update
pbio_observer_update(o, time, angle, actuation, voltage) ==
    LET m == model
        speed_numeric == pbio_differentiator_get_speed(o.differentiator, angle)
        feedback_voltage == pbio_observer_get_feedback_voltage(o, angle)
        o1 == update_stall_state(o, time, actuation,
                                 StallVoltage(voltage, feedback_voltage),
                                 feedback_voltage)
        v == AddI32(voltage, feedback_voltage)
        torque == FrictionTorque(o1)
        angle_next == pbio_angle_add_mdeg(o1.angle,
            ModelRow(o1, v, torque, m.d_angle_d_speed, m.d_angle_d_current,
                     m.d_angle_d_voltage, m.d_angle_d_torque))
        speed_clamped == pbio_int_math_clamp(SpeedSum(o1, v, torque),
                                             MAX_NUM_SPEED)
        current_next == CurrentNext(o1, v, torque)
        speed_next == IF ZeroCrossing(speed_clamped, torque) THEN 0
                      ELSE speed_clamped
    IN [o1 EXCEPT !.speed_numeric = speed_numeric,
                  !.differentiator = angle,
                  !.angle = angle_next,
                  !.speed = speed_next,
                  !.current = current_next]

\* pbio_observer_is_stalled: the returned flag and *stall_duration.
pbio_observer_is_stalled(o, time) ==
    IF o.stalled /\ GreaterU32(SubI32(time, o.stall_start), settings.stall_time)
    THEN [stalled |-> TRUE, stall_duration |-> SubI32(time, o.stall_start)]
    ELSE [stalled |-> FALSE, stall_duration |-> 0]

-----------------------------------------------------------------------------
(* The observer driven by its caller: reset, one update per control tick,  *)
(* and stall queries.                                                      *)

\* Bounds of the observer model.
MaxOps == 3          \* reset and update calls in one behaviour
MaxAhead == 3        \* how far after the last update is_stalled is asked

\* Inputs of the calls.
BootTimes == {-2}    \* 0xFFFFFFFE: the uint32_t time wraps on the second tick
Voltages == {-6000, 0, 6000}
Angles == {Angle(-5000), Angle(0), Angle(5000)}
ResetAngles == {Angle(0), Angle(5000)}
\* <<actuation, voltage, measured angle>> of an update: under voltage the
\* motor is at the angle of the model or held back against the drive; a
\* coasting or braking motor is behind the model.
UpdateInputs ==
    { in \in {PBIO_DCMOTOR_ACTUATION_VOLTAGE} \X Voltages \X Angles :
          \/ in[3] = Angle(0)
          \/ in[2] > 0 /\ in[3] = Angle(-5000)
          \/ in[2] < 0 /\ in[3] = Angle(5000) }
    \cup {<<PBIO_DCMOTOR_ACTUATION_COAST, 0, Angle(-5000)>>,
          <<PBIO_DCMOTOR_ACTUATION_BRAKE, 6000, Angle(-5000)>>}

\* Measured angles for which the feedback voltage is asked.
FeedbackAngles == {Angle(-7000), Angle(0), Angle(7000)}

NoQuery == [asked |-> FALSE, time |-> 0, ticks |-> 0,
            stalled |-> FALSE, stall_duration |-> 0,
            fb_asked |-> FALSE, fb_angle |-> Angle(0), feedback |-> 0]

\* Control ticks elapsed since boot (each update is one tick later).
Ticks == IF hist = <<>> THEN 0 ELSE hist[Len(hist)].ticks

InitObs ==
    /\ \E type \in DOMAIN Models :
        obs = [model |-> type, angle |-> Angle(0), speed |-> 0,
               current |-> 0, speed_numeric |-> 0, stalled |-> FALSE,
               stall_start |-> 0, differentiator |-> Angle(0)]
    /\ now \in BootTimes
    /\ hist = <<>>
    /\ q = NoQuery

InitTask ==
    /\ pc = "idle"
    /\ task = [status |-> "SUCCESS", cancel |-> FALSE, left |-> 0,
               cancels |-> 0]
    /\ iodev = [status |-> "SUCCESS", cancel |-> FALSE, left |-> 0,
                cancels |-> 0]
    /\ clock = 0
    /\ frame = [start |-> 0, timeout |-> 0, exc |-> "none",
                result |-> "none", calls |-> 0, busy |-> FALSE,
                again |-> 0, streak |-> 0]
    /\ trace = <<>>
    /\ InitLib

Init == InitObs /\ InitTask

\* The caller resets the observer to an angle.
Reset(angle) ==
    /\ Len(hist) < MaxOps
    /\ obs' = pbio_observer_reset(obs, angle)
    /\ hist' = Append(hist, [op |-> "reset", ticks |-> Ticks, time |-> now,
                             angle |-> angle,
                             actuation |-> PBIO_DCMOTOR_ACTUATION_COAST,
                             voltage |-> 0, pre |-> obs])
    /\ q' = NoQuery
    /\ UNCHANGED <<now, taskVars, libVars>>

\* The control loop's next tick: pbio_observer_update at the new time.
Update(angle, actuation, voltage) ==
    /\ Len(hist) < MaxOps
    /\ now' = AddI32(now, 1)
    /\ obs' = pbio_observer_update(obs, now', angle, actuation, voltage)
    /\ hist' = Append(hist, [op |-> "update", ticks |-> Ticks + 1,
                             time |-> now', angle |-> angle,
                             actuation |-> actuation, voltage |-> voltage,
                             pre |-> obs])
    /\ q' = NoQuery
    /\ UNCHANGED <<taskVars, libVars>>

\* The caller asks pbio_observer_is_stalled, ahead ticks after the last
\* update.
IsStalled(ahead) ==
    /\ q' = [asked |-> TRUE, time |-> AddI32(now, ahead),
             ticks |-> Ticks + ahead]
            @@ pbio_observer_is_stalled(obs, AddI32(now, ahead))
            @@ NoQuery
    /\ UNCHANGED <<obs, now, hist, taskVars, libVars>>

\* The caller asks pbio_observer_get_feedback_voltage for a measured angle.
GetFeedbackVoltage(angle) ==
    /\ q' = [NoQuery EXCEPT
                !.fb_asked = TRUE,
                !.fb_angle = angle,
                !.feedback = pbio_observer_get_feedback_voltage(obs, angle)]
    /\ UNCHANGED <<obs, now, hist, taskVars, libVars>>

NextObs ==
    \/ \E angle \in ResetAngles : Reset(angle)
    \/ \E in \in UpdateInputs : Update(in[3], in[1], in[2])
    \/ \E ahead \in 0..MaxAhead : IsStalled(ahead)
    \/ \E angle \in FeedbackAngles : GetFeedbackVoltage(angle)

SpecObs == Init /\ [][NextObs]_vars

-----------------------------------------------------------------------------
(* Properties of the stall detection.                                      *)

Last == hist[Len(hist)]

LastIsUpdate == hist # <<>> /\ Last.op = "update"

\* The feedback voltage an update computed, from its inputs.
FeedbackOf(e) == pbio_observer_get_feedback_voltage(e.pre, e.angle)

\* The four stall conditions as the specification words them, on the values
\* of update e normalised to forward motion.
FourConditions(e) ==
    LET neg == e.voltage < 0
        speed == IF neg THEN -e.pre.speed ELSE e.pre.speed
        voltage == IF neg THEN -e.voltage ELSE e.voltage
        feedback == IF neg THEN -FeedbackOf(e) ELSE FeedbackOf(e)
        friction == pbio_observer_torque_to_voltage(
                        model, model.torque_friction \div 2)
    IN /\ speed < settings.stall_speed_limit
       /\ feedback < 0
       /\ 4 * (-feedback) > 3 * voltage
       /\ voltage > 5 * friction

\* The stall condition held at call e.
CondHeld(e) ==
    /\ e.op = "update"
    /\ e.actuation = PBIO_DCMOTOR_ACTUATION_VOLTAGE
    /\ FourConditions(e)

\* Index of the update at which the stall condition last started to hold
\* without interruption up to the last call (when it holds at the last call).
RunStart ==
    CHOOSE i \in 1..Len(hist) :
        /\ \A j \in i..Len(hist) : CondHeld(hist[j])
        /\ i = 1 \/ ~CondHeld(hist[i - 1])

\* C1: after every update whose actuation is not VOLTAGE the stalled flag is
\* false, whatever the observer state and the other inputs were.
C1_NonVoltageClearsStalled ==
    (LastIsUpdate /\ Last.actuation # PBIO_DCMOTOR_ACTUATION_VOLTAGE)
        => ~obs.stalled

\* C1 witness: a non-VOLTAGE update on an observer whose flag was set.
C1_Witness ==
    /\ LastIsUpdate
    /\ Last.actuation # PBIO_DCMOTOR_ACTUATION_VOLTAGE
    /\ Last.pre.stalled

\* C2: with the four conditions holding on every update from tick T on,
\* is_stalled(time) is true exactly for time >= T + stall_time, and then
\* reports the duration time - T.
C2_StallLatency ==
    (q.asked /\ hist # <<>> /\ CondHeld(Last)) =>
        LET elapsed == q.ticks - hist[RunStart].ticks
        IN /\ q.stalled <=> elapsed >= settings.stall_time
           /\ q.stalled => q.stall_duration = elapsed

\* C3: after an update at which the condition fails stalled is false, and
\* while it holds stall_start is the time of the latest rising edge, from
\* which is_stalled measures its duration.
C3_DebounceRelatches ==
    LastIsUpdate =>
        IF CondHeld(Last)
        THEN /\ obs.stalled
             /\ obs.stall_start = hist[RunStart].time
             /\ (q.asked /\ q.stalled) =>
                    q.stall_duration = q.ticks - hist[RunStart].ticks
        ELSE ~obs.stalled /\ ~q.stalled

\* C3 witness: the condition held, failed on one update and holds again;
\* stall_start is the time of the second rising edge and is_stalled reports
\* the duration since then.
C3_Witness ==
    /\ Len(hist) >= 3
    /\ CondHeld(hist[1])
    /\ hist[2].op = "update" /\ ~CondHeld(hist[2])
    /\ CondHeld(hist[3])
    /\ obs.stalled
    /\ obs.stall_start = hist[3].time
    /\ obs.stall_start # hist[1].time
    /\ q.asked /\ q.stalled
    /\ q.stall_duration = q.ticks - hist[3].ticks

\* C4: after an update with VOLTAGE actuation, stalled is true iff the four
\* conditions hold on the values normalised to forward motion.
C4_StalledIffFourConditions ==
    (LastIsUpdate /\ Last.actuation = PBIO_DCMOTOR_ACTUATION_VOLTAGE)
        => (obs.stalled <=> FourConditions(Last))

\* C4 witness: a stall detected while driving backward (the normalisation
\* negated the values).
C4_Witness ==
    /\ LastIsUpdate
    /\ Last.actuation = PBIO_DCMOTOR_ACTUATION_VOLTAGE
    /\ Last.voltage < 0
    /\ obs.stalled

-----------------------------------------------------------------------------
(* The cancellable operation behind a blocking wrapper: the scan-and-      *)
(* connect task of pb_remote_singleton and the mode change of an I/O       *)
(* device.  status is PBIO_ERROR_AGAIN while it runs; cancel is the        *)
(* request flag; left counts the teardown steps still to run once the      *)
(* request is seen; cancels counts the cancel calls since the start.       *)

\* Bounds of the wrapper model.
MaxCalls == 2         \* wrapper calls in one behaviour
MaxClock == 3         \* mp_hal_ticks_ms() stops advancing here
MaxBeginRetries == 2  \* retries of a begin step that reports again
TeardownLength == 2   \* driver steps from a cancel request to the end

Timeouts == {-1, 0, 2}

\* memset(remote, 0, sizeof(*remote)): the task zeroed (PBIO_SUCCESS is 0).
OpZero == [status |-> "SUCCESS", cancel |-> FALSE, left |-> 0, cancels |-> 0]

\* pbdrv_bluetooth_scan_and_connect, pbio_iodev_set_mode_begin: the operation
\* starts and reports PBIO_ERROR_AGAIN.
OpStart ==
    [status |-> "AGAIN", cancel |-> FALSE, left |-> TeardownLength,
     cancels |-> 0]

\* pbio_task_cancel, pbio_iodev_set_mode_cancel: a request; repeating it does
\* not restart the teardown.
pbio_task_cancel(t) == [t EXCEPT !.cancel = TRUE, !.cancels = @ + 1]

\* The teardown steps of a cancelled operation: each driver step advances
\* the teardown, the last one ends it with PBIO_ERROR_CANCELED.
OpTeardown(t) ==
    IF t.status = "AGAIN" /\ t.cancel
    THEN {IF t.left > 1 THEN [t EXCEPT !.left = @ - 1]
          ELSE [t EXCEPT !.left = 0, !.status = "ECANCELED"]}
    ELSE {}

\* Mutant: the driver reports a second, different result after the end.
OpStep_Rewrites(t) ==
    IF t.status = "AGAIN" THEN {t, [t EXCEPT !.status = "SUCCESS"]}
    ELSE {t, [t EXCEPT !.status = "FAILED"]}

\* What one pass of the driver can do to an operation: nothing once it has
\* ended; while it runs, nothing yet, or end in success or failure (until a
\* cancel request is seen), or one teardown step.
OpStep(t) ==
    IF t.status # "AGAIN" THEN {t}
    ELSE {t}
         \cup (IF ~t.cancel \/ t.left = TeardownLength
               THEN {[t EXCEPT !.status = "SUCCESS"]} ELSE {})
         \cup (IF ~t.cancel THEN {[t EXCEPT !.status = "FAILED"]} ELSE {})
         \cup OpTeardown(t)

\* pbio_do_one_event until idle: the drivers of both operations run.
EventLoop(t, d) == OpStep(t) \X OpStep(d)

\* The clock after a hook: the same millisecond or the next.
ClockAfterHook == {clock} \cup (IF clock < MaxClock THEN {clock + 1} ELSE {})

\* pb_assert(err) after nlr_pop(): the result the caller sees.
pb_assert(status) == IF status = "SUCCESS" THEN "ok" ELSE status

\* pb_remote_connect line 68: timeout == -1 || mp_hal_ticks_ms() - start <
\* timeout, the difference and the comparison unsigned.
ConnectLoopCondition(timeout, start) ==
    \/ timeout = -1
    \/ GreaterU32(timeout, SubI32(clock, start))

-----------------------------------------------------------------------------
(* pb_remote_connect (pb_type_pupdevices_remote.c) and wait                *)
(* (pb_type_device.h), one action per step between two hooks.              *)

\* Mutant: the exception handler does not cancel the task.
ConnectExceptCancel_NoCancel(t) == t

\* pb_remote_connect line 79: pbio_task_cancel(&remote->task).
ConnectExceptCancel(t) == pbio_task_cancel(t)

\* Mutant: the handler re-raises without draining the task.
ConnectDrainDone_NoWait(t) == TRUE

\* pb_remote_connect line 80: the drain loop ends when the status is no
\* longer PBIO_ERROR_AGAIN.
ConnectDrainDone(t) == t.status # "AGAIN"

\* wait line 84: cancel(iodev).
WaitExceptCancel(d) == pbio_task_cancel(d)

\* Mutant: wait re-raises without draining the operation.
WaitDrainDone_NoWait(d) == TRUE

\* wait line 85: the drain loop ends when end(iodev) is no longer
\* PBIO_ERROR_AGAIN.
WaitDrainDone(d) == d.status # "AGAIN"

\* Mutant: the drain loop requests the cancellation again on every pass.
DrainHook_CancelsAgain(t, d) ==
    EventLoop(IF t.status = "AGAIN" THEN pbio_task_cancel(t) ELSE t,
              IF d.status = "AGAIN" THEN pbio_task_cancel(d) ELSE d)

\* MICROPY_VM_HOOK_LOOP in the drain loops (remote line 81, wait line 86):
\* the event loop runs, nothing is raised.
DrainHook(t, d) == EventLoop(t, d)

\* Mutant: the handler raises the error of the operation in place of the
\* exception it caught.
Reraised_OperationError(f, op) == pb_assert(op.status)

\* nlr_jump(nlr.ret_val) (remote line 83), nlr_raise(nlr.ret_val) (wait
\* line 88): the exception that entered the handler is raised again.
Reraised(f, op) == f.exc

\* Mutant: pb_assert runs before nlr_pop, so that the error of the operation
\* lands in the handler.
AfterTerminal_Caught(status, handler) ==
    IF status = "SUCCESS" THEN "idle" ELSE handler

\* Where the wrapper goes when the operation has ended on its own: nlr_pop()
\* comes before pb_assert (remote lines 71-73, wait lines 80-81), so the
\* call is left, by return or by the error, and the handler is not entered.
AfterTerminal(status, handler) == "idle"

\* History of the polling: a step of the operation reported
\* PBIO_ERROR_AGAIN.  again counts such answers since the last hook, streak
\* is the longest run of them in the call.
PollAgain(f) ==
    [f EXCEPT !.again = @ + 1,
              !.streak = IF f.again + 1 > @ THEN f.again + 1 ELSE @]

\* History of the polling: MICROPY_EVENT_POLL_HOOK ran.
HookRan(f) == [f EXCEPT !.again = 0]

\* The history of the call in progress, with one more event.
Logged(events) == trace \o events

\* pb_remote_connect lines 55-67: the singleton is zeroed, the task started.
Connect(timeout) ==
    /\ pc = "idle"
    /\ frame.calls < MaxCalls
    /\ task' = OpStart
    /\ pc' = "connect_loop"
    /\ frame' = [frame EXCEPT !.start = clock, !.timeout = timeout,
                              !.exc = "none", !.calls = @ + 1,
                              !.busy = (task.status = "AGAIN"),
                              !.again = 0, !.streak = 0]
    /\ trace' = <<"start">>
    /\ UNCHANGED <<iodev, clock, obsVars, libVars>>

\* Line 76: the loop condition fails, mp_raise_OSError(MP_ETIMEDOUT) jumps
\* to the handler.
ConnectTimeout ==
    /\ pc = "connect_loop"
    /\ ~ConnectLoopCondition(frame.timeout, frame.start)
    /\ pc' = "connect_except"
    /\ frame' = [frame EXCEPT !.exc = "ETIMEDOUT"]
    /\ trace' = Logged(<<"timeout">>)
    /\ UNCHANGED <<task, iodev, clock, obsVars, libVars>>

\* Line 69: MICROPY_EVENT_POLL_HOOK raises a pending exception.
ConnectInterrupt ==
    /\ pc = "connect_loop"
    /\ ConnectLoopCondition(frame.timeout, frame.start)
    /\ pc' = "connect_except"
    /\ frame' = [frame EXCEPT !.exc = "KeyboardInterrupt"]
    /\ trace' = Logged(<<"interrupt">>)
    /\ UNCHANGED <<task, iodev, clock, obsVars, libVars>>

\* Lines 68-75: one pass of the loop: the hook runs the event loop, then the
\* status is checked.
ConnectPoll ==
    /\ pc = "connect_loop"
    /\ ConnectLoopCondition(frame.timeout, frame.start)
    /\ \E next \in EventLoop(task, iodev), c \in ClockAfterHook :
        /\ task' = next[1]
        /\ iodev' = next[2]
        /\ clock' = c
        /\ IF next[1].status # "AGAIN"
           THEN /\ pc' = AfterTerminal(next[1].status, "connect_except")
                /\ frame' = [frame EXCEPT
                                !.result = pb_assert(next[1].status)]
                /\ trace' = Logged(<<"terminal", "return">>)
           ELSE /\ frame' = PollAgain(HookRan(frame))
                /\ UNCHANGED <<pc, trace>>
    /\ UNCHANGED <<obsVars, libVars>>

\* Line 79: the handler cancels the task.
ConnectExcept ==
    /\ pc = "connect_except"
    /\ task' = ConnectExceptCancel(task)
    /\ pc' = "connect_drain"
    /\ trace' = IF task'.cancels > task.cancels THEN Logged(<<"cancel">>)
                ELSE trace
    /\ UNCHANGED <<iodev, clock, frame, obsVars, libVars>>

\* Lines 80-83: one pass of the drain loop, or nlr_jump(nlr.ret_val) once
\* the loop has ended.
ConnectDrain ==
    /\ pc = "connect_drain"
    /\ IF ~ConnectDrainDone(task)
       THEN \E next \in DrainHook(task, iodev), c \in ClockAfterHook :
                /\ task' = next[1]
                /\ iodev' = next[2]
                /\ clock' = c
                /\ trace' = IF trace[Len(trace)] = "again" THEN trace
                            ELSE Logged(<<"again">>)
                /\ UNCHANGED <<pc, frame>>
       ELSE /\ pc' = "idle"
            /\ frame' = [frame EXCEPT !.result = Reraised(frame, task)]
            /\ trace' = Logged(<<IF task.status # "AGAIN" THEN "terminal"
                                 ELSE "abandoned", "raise">>)
            /\ UNCHANGED <<task, iodev, clock>>
    /\ UNCHANGED <<obsVars, libVars>>

\* pb_iodevice_set_mode lines 121-123 (pb_iodevice_set_values is the same):
\* the first pbio_iodev_set_mode_begin succeeds, the mode change has begun
\* and wait is entered.
SetMode ==
    /\ pc = "idle"
    /\ frame.calls < MaxCalls
    /\ iodev' = OpStart
    /\ pc' = "wait_loop"
    /\ frame' = [frame EXCEPT !.start = clock, !.timeout = -1,
                              !.exc = "none", !.calls = @ + 1,
                              !.busy = (iodev.status = "AGAIN"),
                              !.again = 0, !.streak = 0]
    /\ trace' = <<"start">>
    /\ UNCHANGED <<task, clock, obsVars, libVars>>

\* pb_iodevice_set_mode line 121: the first pbio_iodev_set_mode_begin
\* reports PBIO_ERROR_AGAIN (the port is busy) and the while loop is entered.
SetModeBusy ==
    /\ pc = "idle"
    /\ frame.calls < MaxCalls
    /\ pc' = "begin_loop"
    /\ frame' = PollAgain([frame EXCEPT !.start = clock, !.timeout = -1,
                                        !.exc = "none", !.calls = @ + 1,
                                        !.again = 0, !.streak = 0])
    /\ trace' = <<>>
    /\ UNCHANGED <<task, iodev, clock, obsVars, libVars>>

\* pb_iodevice_set_mode lines 121-123: the empty-bodied while loop calls
\* begin again at once.  It reports PBIO_ERROR_AGAIN again, or an error that
\* pb_assert raises, or success, after which wait is entered.
SetModeRetry ==
    /\ pc = "begin_loop"
    /\ \E err \in {"AGAIN", "FAILED", "SUCCESS"} :
        CASE err = "AGAIN" ->
                /\ frame.again < MaxBeginRetries
                /\ frame' = PollAgain(frame)
                /\ UNCHANGED <<pc, iodev, trace>>
          [] err = "FAILED" ->
                /\ pc' = "idle"
                /\ frame' = [frame EXCEPT !.result = pb_assert(err)]
                /\ UNCHANGED <<iodev, trace>>
          [] err = "SUCCESS" ->
                /\ iodev' = OpStart
                /\ pc' = "wait_loop"
                /\ frame' = [frame EXCEPT
                                !.busy = (iodev.status = "AGAIN")]
                /\ trace' = <<"start">>
    /\ UNCHANGED <<task, clock, obsVars, libVars>>

\* wait line 79: MICROPY_EVENT_POLL_HOOK raises a pending exception.
WaitInterrupt ==
    /\ pc = "wait_loop"
    /\ iodev.status = "AGAIN"
    /\ pc' = "wait_except"
    /\ frame' = [frame EXCEPT !.exc = "KeyboardInterrupt"]
    /\ trace' = Logged(<<"interrupt">>)
    /\ UNCHANGED <<task, iodev, clock, obsVars, libVars>>

\* wait lines 78-82: end(iodev) is asked; PBIO_ERROR_AGAIN runs the hook,
\* anything else leaves through pb_assert(err).
WaitPoll ==
    /\ pc = "wait_loop"
    /\ IF iodev.status = "AGAIN"
       THEN \E next \in EventLoop(task, iodev), c \in ClockAfterHook :
                /\ task' = next[1]
                /\ iodev' = next[2]
                /\ clock' = c
                /\ frame' = HookRan(PollAgain(frame))
                /\ UNCHANGED <<pc, trace>>
       ELSE /\ pc' = AfterTerminal(iodev.status, "wait_except")
            /\ frame' = [frame EXCEPT !.result = pb_assert(iodev.status)]
            /\ trace' = Logged(<<"terminal", "return">>)
            /\ UNCHANGED <<task, iodev, clock>>
    /\ UNCHANGED <<obsVars, libVars>>

\* wait line 84: the handler calls the cancel hook.
WaitExcept ==
    /\ pc = "wait_except"
    /\ iodev' = WaitExceptCancel(iodev)
    /\ pc' = "wait_drain"
    /\ trace' = IF iodev'.cancels > iodev.cancels THEN Logged(<<"cancel">>)
                ELSE trace
    /\ UNCHANGED <<task, clock, frame, obsVars, libVars>>

\* wait lines 85-88: one pass of the drain loop, or nlr_raise(nlr.ret_val).
WaitDrain ==
    /\ pc = "wait_drain"
    /\ IF ~WaitDrainDone(iodev)
       THEN \E next \in DrainHook(task, iodev), c \in ClockAfterHook :
                /\ task' = next[1]
                /\ iodev' = next[2]
                /\ clock' = c
                /\ trace' = IF trace[Len(trace)] = "again" THEN trace
                            ELSE Logged(<<"again">>)
                /\ UNCHANGED <<pc, frame>>
       ELSE /\ pc' = "idle"
            /\ frame' = [frame EXCEPT !.result = Reraised(frame, iodev)]
            /\ trace' = Logged(<<IF iodev.status # "AGAIN" THEN "terminal"
                                 ELSE "abandoned", "raise">>)
            /\ UNCHANGED <<task, iodev, clock>>
    /\ UNCHANGED <<obsVars, libVars>>

NextTask ==
    \/ \E timeout \in Timeouts : Connect(timeout)
    \/ ConnectTimeout
    \/ ConnectInterrupt
    \/ ConnectPoll
    \/ ConnectExcept
    \/ ConnectDrain
    \/ SetMode
    \/ SetModeBusy
    \/ SetModeRetry
    \/ WaitInterrupt
    \/ WaitPoll
    \/ WaitExcept
    \/ WaitDrain

SpecTask == Init /\ [][NextTask]_vars

\* A pass of a drain loop in which the driver advances the teardown of the
\* cancelled operation, or the step that leaves the loop.
DrainProgress ==
    /\ ConnectDrain \/ WaitDrain
    /\ \/ task'.left < task.left
       \/ iodev'.left < iodev.left
       \/ pc' = "idle"

\* The driver does not fault: a requested teardown goes on.
SpecTaskFair == SpecTask /\ WF_vars(DrainProgress)

-----------------------------------------------------------------------------
(* Properties of the blocking wrappers.                                    *)

\* The events of the call in progress (or of the last call, when idle).
Events == {trace[i] : i \in 1..Len(trace)}

\* The wrapper has left through its handler after seeing the operation end.
DrainedAndRaised ==
    /\ pc = "idle"
    /\ Len(trace) >= 2
    /\ trace[Len(trace) - 1] = "terminal"
    /\ trace[Len(trace)] = "raise"

\* C5: once the handler of pb_remote_connect or wait has cancelled the
\* operation, the drain loop sees a terminal status after finitely many
\* passes and the wrapper leaves (the driver not faulting).
C5_CancelTerminates ==
    (pc \in {"connect_drain", "wait_drain"}) ~> DrainedAndRaised

\* C5 witness: a cancelled task went through its teardown, was polled while
\* still running and ended cancelled.
C5_Witness ==
    /\ DrainedAndRaised
    /\ "cancel" \in Events
    /\ "again" \in Events
    /\ task.status = "ECANCELED"

\* C6: when pb_remote_connect reports ETIMEDOUT, the call cancelled the
\* task, then polled it until it was no longer running, and only then
\* raised.
C6_TimeoutOrder ==
    (pc = "idle" /\ frame.result = "ETIMEDOUT") =>
        trace \in {<<"start", "timeout", "cancel", "terminal", "raise">>,
                   <<"start", "timeout", "cancel", "again", "terminal",
                     "raise">>}

\* C6 witness: a timeout reported after the drain loop polled a still
\* running task.
C6_Witness ==
    /\ pc = "idle"
    /\ frame.result = "ETIMEDOUT"
    /\ "again" \in Events

\* C7: whenever control is outside the wrappers, on whichever path it left
\* them, neither operation is still running.
C7_NeverAbandoned ==
    pc = "idle" => (task.status # "AGAIN" /\ iodev.status # "AGAIN")

\* C7 witness: wait left by re-raising an interrupt, the operation ended.
C7_Witness ==
    /\ pc = "idle"
    /\ frame.result = "KeyboardInterrupt"
    /\ iodev.status = "ECANCELED"

C9_AtMostOneCancel == task.cancels <= 1 /\ iodev.cancels <= 1

\* C9 witness: a call that cancelled its task once and drained it.
C9_Witness ==
    /\ DrainedAndRaised
    /\ task.cancels = 1
    /\ task.status = "ECANCELED"

\* C10: a terminal status stays the same on every later poll, until the
\* operation is started again.
C10_TerminalStatusStable ==
    [][/\ (task.status # "AGAIN" /\ ~(pc = "idle" /\ pc' = "connect_loop"))
           => task'.status = task.status
       /\ (iodev.status # "AGAIN"
              /\ ~(pc \in {"idle", "begin_loop"} /\ pc' = "wait_loop"))
           => iodev'.status = iodev.status]_vars

\* C10 witness: a task that was polled while running and ended in failure,
\* with the event loop polled again by a later call.
C10_Witness ==
    /\ task.status = "FAILED"
    /\ pc = "wait_loop"
    /\ clock >= 2

\* C11: whenever pb_remote_connect reports a timeout, the scan-and-connect
\* task has ended in an error or cancelled status, never in success.
C11_TimeoutNoSuccess ==
    (pc = "idle" /\ frame.result = "ETIMEDOUT") =>
        task.status \in {"ECANCELED", "FAILED"}

\* C11 (the operation cancelled in time): a timeout reported with the task
\* ended cancelled.
C11_Cancelled ==
    /\ pc = "idle"
    /\ frame.result = "ETIMEDOUT"
    /\ task.status = "ECANCELED"

\* C12: in every wrapper, between two consecutive steps that report
\* PBIO_ERROR_AGAIN (the end check of wait, the status check of
\* pb_remote_connect, the begin step of pb_iodevice_set_mode) the poll hook
\* has run.
C12_YieldsBetweenPolls == frame.streak <= 1

\* C12 (the loops that do yield): wait polled a running operation after the
\* hook had run.
C12_WaitYields ==
    /\ pc = "wait_loop"
    /\ clock >= 2
    /\ frame.streak = 1

-----------------------------------------------------------------------------
(* Properties of the state update of the observer.                         *)

\* The voltage the model rows of update e were computed with: the commanded
\* voltage plus the feedback voltage.
RowVoltage(e) == AddI32(e.voltage, FeedbackOf(e))

\* The weighted sums of the speed and the current row of update e, before
\* clamping.
SpeedSumOf(e) == SpeedSum(e.pre, RowVoltage(e), FrictionTorque(e.pre))
CurrentSumOf(e) == CurrentSum(e.pre, RowVoltage(e), FrictionTorque(e.pre))

\* C13: the committed speed and current are within their bounds after reset
\* and after every update, and a weighted sum beyond a bound commits exactly
\* that bound, for both signs.
C13_ClampedToBounds ==
    /\ obs.speed >= -MAX_NUM_SPEED /\ obs.speed <= MAX_NUM_SPEED
    /\ obs.current >= -MAX_NUM_CURRENT /\ obs.current <= MAX_NUM_CURRENT
    /\ LastIsUpdate =>
        /\ SpeedSumOf(Last) > MAX_NUM_SPEED => obs.speed = MAX_NUM_SPEED
        /\ SpeedSumOf(Last) < -MAX_NUM_SPEED => obs.speed = -MAX_NUM_SPEED
        /\ CurrentSumOf(Last) > MAX_NUM_CURRENT
               => obs.current = MAX_NUM_CURRENT
        /\ CurrentSumOf(Last) < -MAX_NUM_CURRENT
               => obs.current = -MAX_NUM_CURRENT

\* C13 witness: an update whose speed sum is above the upper bound and whose
\* current sum is above the upper bound, after one where both were below
\* the lower bounds.
C13_Witness ==
    /\ Len(hist) >= 2
    /\ LastIsUpdate
    /\ SpeedSumOf(Last) > MAX_NUM_SPEED
    /\ CurrentSumOf(Last) > MAX_NUM_CURRENT
    /\ hist[Len(hist) - 1].op = "update"
    /\ SpeedSumOf(hist[Len(hist) - 1]) < -MAX_NUM_SPEED
    /\ CurrentSumOf(hist[Len(hist) - 1]) < -MAX_NUM_CURRENT
    /\ Last.pre.speed = -MAX_NUM_SPEED
    /\ Last.pre.current = -MAX_NUM_CURRENT

\* The error of a measured angle against the estimate, in millidegrees.
ErrorOf(angle) == pbio_angle_diff_mdeg(angle, obs.angle)

\* C14: the feedback voltage is the error times feedback_gain limited to
\* [-MAX_NUM_VOLTAGE, MAX_NUM_VOLTAGE]: it is within that range, has the sign
\* of the error, and asking for it leaves the observer as it was.
C14_FeedbackVoltage ==
    q.fb_asked =>
        LET error == ErrorOf(q.fb_angle)
            gained == error * settings.feedback_gain
        IN /\ q.feedback >= -MAX_NUM_VOLTAGE /\ q.feedback <= MAX_NUM_VOLTAGE
           /\ pbio_int_math_sign(q.feedback) = pbio_int_math_sign(error)
           /\ q.feedback = IF gained > MAX_NUM_VOLTAGE THEN MAX_NUM_VOLTAGE
                           ELSE IF gained < -MAX_NUM_VOLTAGE
                                THEN -MAX_NUM_VOLTAGE
                                ELSE gained
           /\ hist # <<>> /\ Last.op = "update" =>
                  obs = pbio_observer_update(Last.pre, Last.time, Last.angle,
                                             Last.actuation, Last.voltage)

\* C14 witness: a feedback voltage limited to the lower bound, asked of an
\* observer that has been updated.
C14_Witness ==
    /\ q.fb_asked
    /\ LastIsUpdate
    /\ ErrorOf(q.fb_angle) * settings.feedback_gain < -MAX_NUM_VOLTAGE
    /\ q.feedback = -MAX_NUM_VOLTAGE

\* C14 (the other cases): feedback voltages at the upper bound, inside the
\* range, and zero.
C14_UpperBound == q.fb_asked /\ q.feedback = MAX_NUM_VOLTAGE
C14_Inside == q.fb_asked /\ q.feedback > 0 /\ q.feedback < MAX_NUM_VOLTAGE
C14_Zero == q.fb_asked /\ q.feedback = 0 /\ ErrorOf(q.fb_angle) = 0

\* The new speed of update e as the clamped weighted sum, and the weighted
\* sum of the same row without its friction-torque term.
SpeedWithTorque(e) == pbio_int_math_clamp(SpeedSumOf(e), MAX_NUM_SPEED)
SpeedWithoutTorque(e) == SpeedSum(e.pre, RowVoltage(e), 0)

\* C15: the committed speed is 0 when the new speed and the new speed
\* without the friction-torque term differ in sign (one negative, the other
\* not), and the clamped weighted sum otherwise.
C15_ZeroCrossingGuard ==
    LastIsUpdate =>
        obs.speed =
            IF (SpeedWithTorque(Last) < 0) # (SpeedWithoutTorque(Last) < 0)
            THEN 0
            ELSE SpeedWithTorque(Last)

\* C15 witness: friction alone turned a forward speed into a backward one
\* and the committed speed is 0.
C15_Witness ==
    /\ LastIsUpdate
    /\ SpeedWithTorque(Last) < 0
    /\ SpeedWithoutTorque(Last) > 0
    /\ obs.speed = 0

\* C15 (the other direction): friction alone turned a backward speed into a
\* forward one.
C15_Backward ==
    /\ LastIsUpdate
    /\ SpeedWithTorque(Last) > 0
    /\ SpeedWithoutTorque(Last) < 0
    /\ obs.speed = 0

\* Half the friction torque of the model with the sign of a speed; at speed
\* 0 either sign.
HalfFriction(speed) ==
    LET half == model.torque_friction \div 2
    IN IF speed > 0 THEN {half}
       ELSE IF speed < 0 THEN {-half}
       ELSE {half, -half}

\* C16: the current and the angle an update commits are those computed with
\* a friction torque of half torque_friction carrying the sign of the speed
\* held before the update, whatever the sign of the voltage.
C16_FrictionFollowsSpeed ==
    LastIsUpdate =>
        \E torque \in HalfFriction(Last.pre.speed) :
            /\ obs.current =
                   pbio_int_math_clamp(
                       CurrentSum(Last.pre, RowVoltage(Last), torque),
                       MAX_NUM_CURRENT)
            /\ obs.angle =
                   pbio_angle_add_mdeg(Last.pre.angle,
                       ModelRow(Last.pre, RowVoltage(Last), torque,
                                model.d_angle_d_speed,
                                model.d_angle_d_current,
                                model.d_angle_d_voltage,
                                model.d_angle_d_torque))

\* C16 witness: the motor turned forward while the commanded and the
\* effective voltage were negative, the committed current was not clamped,
\* and a torque of the other sign would have given another current.
C16_Witness ==
    /\ LastIsUpdate
    /\ Last.pre.speed > 0
    /\ Last.voltage < 0
    /\ RowVoltage(Last) < 0
    /\ obs.current > -MAX_NUM_CURRENT /\ obs.current < MAX_NUM_CURRENT
    /\ obs.current #
           CurrentSum(Last.pre, RowVoltage(Last),
                      -(model.torque_friction \div 2))

\* C16 (backward): the motor turned backward while both voltages were
\* positive.
C16_Backward ==
    /\ LastIsUpdate
    /\ Last.pre.speed < 0
    /\ Last.voltage > 0
    /\ RowVoltage(Last) > 0
    /\ obs.current > -MAX_NUM_CURRENT /\ obs.current < MAX_NUM_CURRENT

\* An observer of the same motor type that has no history.
Fresh ==
    [model |-> obs.model, angle |-> Angle(0), speed |-> 0, current |-> 0,
     speed_numeric |-> 0, stalled |-> FALSE, stall_start |-> 0,
     differentiator |-> Angle(0)]

\* The calls hist[k], hist[k + 1], ... (all updates) applied to observer o.
RECURSIVE Replay(_, _)
Replay(o, k) ==
    IF k > Len(hist) THEN o
    ELSE Replay(pbio_observer_update(o, hist[k].time, hist[k].angle,
                                     hist[k].actuation, hist[k].voltage),
                k + 1)

HasReset == \E r \in 1..Len(hist) : hist[r].op = "reset"

\* Index of the last reset.
LastReset ==
    CHOOSE r \in 1..Len(hist) :
        /\ hist[r].op = "reset"
        /\ \A j \in (r + 1)..Len(hist) : hist[j].op = "update"

\* What the estimation and the stall detection read of an observer.
Estimate(o) ==
    [angle |-> o.angle, speed |-> o.speed, current |-> o.current,
     stalled |-> o.stalled,
     stall_start |-> IF o.stalled THEN o.stall_start ELSE 0]

\* C17: reset leaves the given angle, speed 0, current 0, stalled false and
\* the differentiator reset to the angle; from then on the observer and the
\* answers of is_stalled are those of an observer without history that was
\* reset to the same angle and given the same updates.
C17_ResetForgets ==
    /\ (hist # <<>> /\ Last.op = "reset") =>
        /\ obs.angle = Last.angle
        /\ obs.speed = 0
        /\ obs.current = 0
        /\ ~obs.stalled
        /\ obs.differentiator = pbio_differentiator_reset(Last.angle)
    /\ HasReset =>
        LET twin == Replay(pbio_observer_reset(Fresh, hist[LastReset].angle),
                           LastReset + 1)
        IN /\ Estimate(obs) = Estimate(twin)
           /\ q.asked =>
                  LET answer == pbio_observer_is_stalled(twin, q.time)
                  IN /\ q.stalled = answer.stalled
                     /\ q.stall_duration = answer.stall_duration

\* C17 witness: an observer with a latched stall and a speed was reset; the
\* update after the reset raised the stall again and is_stalled was asked.
C17_Witness ==
    /\ Len(hist) = 3
    /\ hist[2].op = "reset"
    /\ hist[2].pre.stalled
    /\ hist[2].pre.speed # 0
    /\ hist[2].pre.stall_start # Fresh.stall_start
    /\ hist[3].op = "update"
    /\ obs.stalled
    /\ q.asked

\* The stall conditions on a speed, a voltage and a feedback voltage, after
\* the conversion to forward motion.
StalledOn(speed, voltage, feedback_voltage) ==
    IF voltage < 0
    THEN StallConditions(NegI32(speed), NegI32(voltage),
                         NegI32(feedback_voltage))
    ELSE StallConditions(speed, voltage, feedback_voltage)

\* C18: the stall flag an update with VOLTAGE actuation leaves is the stall
\* condition on the speed committed by the previous tick, the commanded
\* voltage without the feedback voltage, and the feedback voltage against
\* the angle estimate of the previous tick.
C18_StallOnPreCorrection ==
    (LastIsUpdate /\ Last.actuation = PBIO_DCMOTOR_ACTUATION_VOLTAGE) =>
        /\ obs.stalled =
               StalledOn(Last.pre.speed, Last.voltage, FeedbackOf(Last))
        /\ obs.stalled =>
               obs.stall_start = IF Last.pre.stalled
                                 THEN Last.pre.stall_start ELSE Last.time

\* C18 witness: a stall raised on the values before the correction, where
\* neither the voltage with the feedback added nor the feedback voltage
\* against the angle this update committed satisfies the stall condition.
C18_Witness ==
    /\ LastIsUpdate
    /\ Last.actuation = PBIO_DCMOTOR_ACTUATION_VOLTAGE
    /\ obs.stalled
    /\ ~StalledOn(Last.pre.speed, RowVoltage(Last), FeedbackOf(Last))
    /\ ~StalledOn(Last.pre.speed, Last.voltage,
                  pbio_observer_get_feedback_voltage(obs, Last.angle))

\* C18 (the speed): no stall was raised although the speed this update
\* committed satisfies the stall condition: the check read the speed of the
\* previous tick.
C18_SpeedOfPreviousTick ==
    /\ LastIsUpdate
    /\ Last.actuation = PBIO_DCMOTOR_ACTUATION_VOLTAGE
    /\ ~obs.stalled
    /\ StalledOn(obs.speed, Last.voltage, FeedbackOf(Last))

\* The fields of an observer the model and the stall detection work on.
Modelled(o) ==
    [angle |-> o.angle, speed |-> o.speed, current |-> o.current,
     stalled |-> o.stalled, stall_start |-> o.stall_start]

\* Observers that agree with o on the modelled fields and differ from it in
\* the numeric speed or in the differentiator.
Twins(o) ==
    { [o EXCEPT !.speed_numeric = sn, !.differentiator = d] :
          sn \in {0, 1000000}, d \in {Angle(90000)} } \ {o}

\* The update e applied to observer o.
UpdateOf(o, e) ==
    pbio_observer_update(o, e.time, e.angle, e.actuation, e.voltage)

\* C19: an update leaves the same angle, speed, current, stalled and
\* stall_start in every observer that agreed on them before it, whatever its
\* numeric speed and differentiator were.
C19_NumericSpeedDiagnostic ==
    LastIsUpdate =>
        \A twin \in Twins(Last.pre) :
            Modelled(UpdateOf(twin, Last)) = Modelled(obs)

\* C19 witness: an update that raised a stall in an observer and in a twin
\* for which the differentiator gives another numeric speed, above the
\* stall speed limit.
C19_Witness ==
    /\ LastIsUpdate
    /\ obs.stalled
    /\ obs.speed_numeric < settings.stall_speed_limit
    /\ \E twin \in Twins(Last.pre) :
           /\ twin.speed_numeric > settings.stall_speed_limit
           /\ UpdateOf(twin, Last).speed_numeric # obs.speed_numeric
           /\ UpdateOf(twin, Last).stalled

-----------------------------------------------------------------------------
(* The unit conversions of observer.c applied to a range of torques.       *)

\* Bounds of the conversion model: the torques are the multiples of
\* TorqueStep from -MaxTorqueSteps to MaxTorqueSteps steps.
TorqueStep == 4999
MaxTorqueSteps == 125

Torques == { k * TorqueStep : k \in -MaxTorqueSteps..MaxTorqueSteps }

\* Reference rates and accelerations for the feedforward torque: the ends of
\* int32_t, the bounds and their neighbours, and values inside.
References ==
    {INT32_MIN, -MAX_NUM_SPEED - 1, -MAX_NUM_SPEED, -100000, -1, 0, 1,
     100000, MAX_NUM_SPEED, MAX_NUM_SPEED + 1, INT32_MAX}

\* A torque to convert or a reference to compute the feedforward torque
\* for, nothing computed yet.
InitConv ==
    /\ InitTask
    /\ \E type \in DOMAIN Models :
        obs = [model |-> type, angle |-> Angle(0), speed |-> 0,
               current |-> 0, speed_numeric |-> 0, stalled |-> FALSE,
               stall_start |-> 0, differentiator |-> Angle(0)]
    /\ now \in BootTimes
    /\ hist = <<>>
    /\ \E in \in ([torque : Torques, rate_ref : {0},
                    acceleration_ref : {0}]
                       \cup [torque : {0}, rate_ref : References,
                             acceleration_ref : References]) :
        q = [torque |-> in.torque, converted |-> FALSE, voltage |-> 0,
             back |-> 0, rate_ref |-> in.rate_ref,
             acceleration_ref |-> in.acceleration_ref,
             ff_asked |-> FALSE, feedforward |-> 0]

\* pbio_observer_torque_to_voltage, then pbio_observer_voltage_to_torque on
\* its result.
Convert ==
    /\ ~q.converted /\ ~q.ff_asked
    /\ LET v == pbio_observer_torque_to_voltage(model, q.torque)
       IN q' = [q EXCEPT !.converted = TRUE,
                         !.voltage = v,
                         !.back = pbio_observer_voltage_to_torque(model, v)]
    /\ UNCHANGED <<obs, now, hist, taskVars, libVars>>

\* pbio_observer_get_feedforward_torque for the references.
Feedforward ==
    /\ ~q.converted /\ ~q.ff_asked
    /\ q' = [q EXCEPT
                !.ff_asked = TRUE,
                !.feedforward = pbio_observer_get_feedforward_torque(
                                    model, q.rate_ref, q.acceleration_ref)]
    /\ UNCHANGED <<obs, now, hist, taskVars, libVars>>

NextConv == Convert \/ Feedforward

SpecConv == InitConv /\ [][NextConv]_vars

\* The torque one unit of voltage converts to, rounded up: the rounding
\* error of one step of the prescaled division.
PrescaleUnit == (PRESCALE_VOLTAGE \div model.d_torque_d_voltage) + 1

\* C20: a torque in [-MAX_NUM_TORQUE, MAX_NUM_TORQUE] whose voltage is in
\* [-MAX_NUM_VOLTAGE, MAX_NUM_VOLTAGE] comes back from the two conversions
\* within one prescale unit of itself.
C20_TorqueRoundTrip ==
    ( /\ q.converted
      /\ q.torque >= -MAX_NUM_TORQUE /\ q.torque <= MAX_NUM_TORQUE
      /\ q.voltage >= -MAX_NUM_VOLTAGE /\ q.voltage <= MAX_NUM_VOLTAGE )
        => /\ q.back - q.torque <= PrescaleUnit
           /\ q.torque - q.back <= PrescaleUnit

\* C20 witness: a negative torque with its voltage in range came back
\* changed by the rounding, by more than half a prescale unit.
C20_Witness ==
    /\ q.converted
    /\ q.torque < 0
    /\ q.voltage >= -MAX_NUM_VOLTAGE /\ q.voltage < 0
    /\ q.back - q.torque > PrescaleUnit \div 2
    /\ q.back - q.torque <= PrescaleUnit

\* C20 (outside the claim): a torque whose voltage is beyond the range.
C20_VoltageOutOfRange ==
    /\ q.converted
    /\ q.voltage > MAX_NUM_VOLTAGE

\* C21: the feedforward torque is the sum of the friction compensation (half
\* torque_friction with the sign of rate_ref), the back-EMF compensation and
\* the acceleration torque, each bounded by the clamp of its reference, the
\* sum limited to [-MAX_NUM_TORQUE, MAX_NUM_TORQUE]; the observer is left
\* as it was.
C21_FeedforwardTorque ==
    q.ff_asked =>
        LET half == model.torque_friction \div 2
            friction == IF q.rate_ref > 0 THEN half
                        ELSE IF q.rate_ref < 0 THEN -half ELSE 0
            rate == IF q.rate_ref > MAX_NUM_SPEED THEN MAX_NUM_SPEED
                    ELSE IF q.rate_ref < -MAX_NUM_SPEED THEN -MAX_NUM_SPEED
                    ELSE q.rate_ref
            acceleration ==
                IF q.acceleration_ref > MAX_NUM_ACCELERATION
                THEN MAX_NUM_ACCELERATION
                ELSE IF q.acceleration_ref < -MAX_NUM_ACCELERATION
                     THEN -MAX_NUM_ACCELERATION
                     ELSE q.acceleration_ref
            back_emf == CDiv(PRESCALE_SPEED * rate, model.d_torque_d_speed)
            inertia == CDiv(PRESCALE_ACCELERATION * acceleration,
                            model.d_torque_d_acceleration)
            sum == friction + back_emf + inertia
        IN /\ q.feedforward >= -MAX_NUM_TORQUE
           /\ q.feedforward <= MAX_NUM_TORQUE
           /\ q.feedforward = IF sum > MAX_NUM_TORQUE THEN MAX_NUM_TORQUE
                              ELSE IF sum < -MAX_NUM_TORQUE
                                   THEN -MAX_NUM_TORQUE
                                   ELSE sum
           /\ obs = Fresh

\* C21 witness: references beyond their bounds, below for the rate and above
\* for the acceleration, with the sum limited to the lower torque bound.
C21_Witness ==
    /\ q.ff_asked
    /\ q.rate_ref < -MAX_NUM_SPEED
    /\ q.acceleration_ref > MAX_NUM_ACCELERATION
    /\ q.feedforward = -MAX_NUM_TORQUE

\* C21 (inside the range): a positive feedforward torque that is not
\* limited.
C21_Inside ==
    /\ q.ff_asked
    /\ q.rate_ref > 0
    /\ q.feedforward > model.torque_friction \div 2
    /\ q.feedforward < MAX_NUM_TORQUE

\* ---------------------------------------------------------------------
\* The constant-voltage scenario: pbio_observer_reset to angle 0, then
\* pbio_observer_update with time 0, measured angle 0, voltage actuation
\* and 6000 mV, again and again.

MaxScenarioUpdates == 60

\* An observer that has run before, so that the reset has something to
\* erase; the scenario has not started.
InitScenario ==
    /\ InitTask
    /\ \E type \in DOMAIN Models :
        obs = [model |-> type, angle |-> Angle(5000), speed |-> 1000,
               current |-> 10, speed_numeric |-> 1000, stalled |-> TRUE,
               stall_start |-> 0, differentiator |-> Angle(5000)]
    /\ now = 0
    /\ hist = <<>>
    /\ q = [started |-> FALSE, updates |-> 0, previous_speed |-> 0]

\* reset(angle = 0)
ScenarioReset ==
    /\ ~q.started
    /\ obs' = pbio_observer_reset(obs, Angle(0))
    /\ q' = [q EXCEPT !.started = TRUE]
    /\ UNCHANGED <<now, hist, taskVars, libVars>>

\* update(t = 0, measured_angle = 0, VOLTAGE, voltage = 6000)
ScenarioUpdate ==
    /\ q.started
    /\ q.updates < MaxScenarioUpdates
    /\ obs' = pbio_observer_update(obs, 0, Angle(0),
                                   PBIO_DCMOTOR_ACTUATION_VOLTAGE, 6000)
    /\ q' = [q EXCEPT !.updates = @ + 1, !.previous_speed = obs.speed]
    /\ UNCHANGED <<now, hist, taskVars, libVars>>

NextScenario == ScenarioReset \/ ScenarioUpdate

SpecScenario == InitScenario /\ [][NextScenario]_vars

\* C22: in the constant-voltage scenario the estimated speed stays in the
\* clamp range and the stall flag is false after the reset and after every
\* update.
C22_ScenarioNeverStalled ==
    q.started =>
        /\ obs.speed >= -MAX_NUM_SPEED
        /\ obs.speed <= MAX_NUM_SPEED
        /\ ~obs.stalled

\* C22 (speed): in the scenario the estimated speed does not decrease from
\* one update to the next while it is positive.
C22_SpeedNeverDecreases ==
    (q.started /\ q.updates > 0 /\ q.previous_speed > 0) =>
        obs.speed >= q.previous_speed

\* C22 (clamp): in the scenario the estimated speed and current stay in
\* their clamp ranges.
C22_ScenarioClamped ==
    q.started =>
        /\ obs.speed >= -MAX_NUM_SPEED /\ obs.speed <= MAX_NUM_SPEED
        /\ obs.current >= -MAX_NUM_CURRENT /\ obs.current <= MAX_NUM_CURRENT

\* C22 (stall): the scenario reaches an update after which the stall flag
\* is raised while the estimated speed has turned negative.
C22_ScenarioStalled ==
    /\ q.started /\ q.updates > 0
    /\ obs.stalled
    /\ obs.speed < 0

-----------------------------------------------------------------------------
(* tacho.c: pbio_tacho_setup and the functions it calls.                   *)

PBIO_SUCCESS == "SUCCESS"
PBIO_ERROR_INVALID_ARG == "INVALID_ARG"
PBIO_ERROR_NO_DEV == "NO_DEV"
PBIO_ERROR_NOT_SUPPORTED == "NOT_SUPPORTED"

\* fix16_t of a whole number.
F16(n) == n * 65536

\* fix16_mul: the product of two 16.16 fixed-point numbers, rounded, for
\* products that fit in fix16_t.
fix16_mul(a, b) ==
    LET ah == a \div 65536
        al == a % 65536
        bh == b \div 65536
        bl == b % 65536
        low == ((al \div 256) * bl + (((al % 256) * bl + 32768) \div 256))
                   \div 256
    IN ah * bh * 65536 + ah * bl + al * bh + low

\* Mutant: only the gear ratio is checked.
ScaleInvalid_GearOnly(counts_per_degree, gear_ratio) ==
    gear_ratio < 0

\* tacho.c, line 19: the check of the scaling factors.
ScaleInvalid(counts_per_degree, gear_ratio) ==
    gear_ratio < 0 \/ counts_per_degree < 0

\* One access to the counter driver.
CounterAccess(c) == [c EXCEPT !.accesses = @ + 1]

\* pbio_tacho_get_count: the status and the count, for the status get_err
\* of pbdrv_counter_get_count.
pbio_tacho_get_count(t, c, get_err) ==
    IF get_err # PBIO_SUCCESS
    THEN [err |-> get_err, count |-> 0]
    ELSE LET count == IF t.direction = PBIO_DIRECTION_COUNTERCLOCKWISE
                      THEN NegI32(c.count) ELSE c.count
         IN [err |-> PBIO_SUCCESS, count |-> SubI32(count, t.offset)]

\* pbio_tacho_reset_count: the status and the tacho afterwards.
pbio_tacho_reset_count(t, c, reset_count, get_err) ==
    LET got == pbio_tacho_get_count(t, c, get_err)
        count_no_offset == AddI32(got.count, t.offset)
    IN IF got.err # PBIO_SUCCESS
       THEN [err |-> got.err, tacho |-> t]
       ELSE [err |-> PBIO_SUCCESS,
             tacho |-> [t EXCEPT
                          !.offset = SubI32(count_no_offset, reset_count)]]

\* pbio_tacho_setup: the status, the tacho and the counter driver
\* afterwards.  The answers of the driver are dev_err, abs_err and get_err,
\* the statuses of pbdrv_counter_get, pbdrv_counter_get_abs_count and
\* pbdrv_counter_get_count, and abs, the absolute count it reports.
pbio_tacho_setup(t, c, direction, counts_per_degree, gear_ratio, driver) ==
    IF ScaleInvalid(counts_per_degree, gear_ratio)
    THEN [err |-> PBIO_ERROR_INVALID_ARG, tacho |-> t, counter |-> c]
    ELSE LET t1 == [t EXCEPT
                      !.counts_per_degree = counts_per_degree,
                      !.counts_per_output_unit =
                          fix16_mul(counts_per_degree, gear_ratio),
                      !.direction = direction]
             c1 == CounterAccess(c)
             t2 == [t1 EXCEPT !.counter = "counter"]
             c2 == CounterAccess(c1)
             abs_count == IF driver.abs_err # PBIO_SUCCESS THEN 0
                          ELSE driver.abs
             reset_to == IF direction = PBIO_DIRECTION_COUNTERCLOCKWISE
                         THEN NegI32(abs_count) ELSE abs_count
             c3 == CounterAccess(c2)
             done == pbio_tacho_reset_count(t2, c2, reset_to,
                                            driver.get_err)
         IN IF driver.dev_err # PBIO_SUCCESS
            THEN [err |-> driver.dev_err, tacho |-> t1, counter |-> c1]
            ELSE [err |-> done.err, tacho |-> done.tacho, counter |-> c3]

\* Bounds and inputs of the tacho setup.
MaxSetups == 2
Directions == {PBIO_DIRECTION_CLOCKWISE, PBIO_DIRECTION_COUNTERCLOCKWISE}
CountsPerDegree == {INT32_MIN, -1, 0, F16(3)}
GearRatios == {-1, F16(1), F16(2) + 32768}
CounterStatuses == {PBIO_SUCCESS, PBIO_ERROR_NO_DEV}
AbsCounts == {-90, 120}

InitTacho ==
    /\ InitTask
    /\ obs = [model |-> "servo", angle |-> Angle(0), speed |-> 0,
              current |-> 0, speed_numeric |-> 0, stalled |-> FALSE,
              stall_start |-> 0, differentiator |-> Angle(0)]
    /\ now = 0
    /\ hist = <<>>
    /\ q = [asked |-> FALSE]

\* pbio_tacho_setup with its arguments and the answers of the driver; q
\* keeps the arguments, the status and the tacho and driver before.
TachoSetup ==
    /\ Len(hist) < MaxSetups
    /\ \E direction \in Directions, counts_per_degree \in CountsPerDegree,
          gear_ratio \in GearRatios, dev_err \in CounterStatuses,
          abs_err \in {PBIO_SUCCESS, PBIO_ERROR_NOT_SUPPORTED},
          abs \in AbsCounts, count \in AbsCounts :
        LET c == [counter EXCEPT !.count = count]
            r == pbio_tacho_setup(tacho, c, direction, counts_per_degree,
                                  gear_ratio,
                                  [dev_err |-> dev_err, abs_err |-> abs_err,
                                   abs |-> abs, get_err |-> PBIO_SUCCESS])
        IN /\ abs_err # PBIO_SUCCESS => abs = count
           /\ dev_err # PBIO_SUCCESS => abs = count /\ abs_err = PBIO_SUCCESS
           /\ ScaleInvalid(counts_per_degree, gear_ratio) =>
                  /\ dev_err = PBIO_SUCCESS
                  /\ abs_err = PBIO_SUCCESS
                  /\ abs = count /\ count = counter.count
           /\ tacho' = r.tacho
           /\ counter' = r.counter
           /\ q' = [asked |-> TRUE, direction |-> direction,
                    counts_per_degree |-> counts_per_degree,
                    gear_ratio |-> gear_ratio, err |-> r.err,
                    tacho |-> tacho, counter |-> counter]
           /\ hist' = Append(hist, r.err)
    /\ UNCHANGED <<obs, now, pc, task, iodev, clock, frame, trace, timers,
                   timer_source, pbio_light_animation_list_head, animations,
                   pbio_light_animation_process, etimer, process_events>>

NextTacho == TachoSetup

SpecTacho == InitTacho /\ [][NextTacho]_vars

\* C23: a setup with a negative gear ratio or negative counts per degree
\* returns PBIO_ERROR_INVALID_ARG, leaves the tacho (scale factors,
\* direction, counter, offset) as it was and does not access the counter
\* driver.
C23_NegativeScaleRejected ==
    (q.asked /\ (q.gear_ratio < 0 \/ q.counts_per_degree < 0)) =>
        /\ q.err = PBIO_ERROR_INVALID_ARG
        /\ tacho = q.tacho
        /\ counter.accesses = q.counter.accesses

\* C23 witness: a tacho that an earlier setup has configured rejects a
\* setup with negative counts per degree and a valid gear ratio.
C23_Witness ==
    /\ q.asked
    /\ q.counts_per_degree < 0 /\ q.gear_ratio > 0
    /\ q.err = PBIO_ERROR_INVALID_ARG
    /\ q.tacho.counter # NULL
    /\ q.tacho.offset # 0
    /\ q.tacho.direction # q.direction

\* C23 (valid arguments): a setup with valid scale factors that finds the
\* counter writes the scale factors and accesses the driver.
C23_Accepted ==
    /\ q.asked
    /\ q.err = PBIO_SUCCESS
    /\ tacho.counts_per_output_unit = F16(7) + 32768
    /\ counter.accesses = q.counter.accesses + 3

-----------------------------------------------------------------------------
(* The timers of the btstack run loop, driven as                           *)
(* test_btstack_run_loop_contiki_timer drives them: set, add, remove,      *)
(* clock_tick and a pass of the run loop at PT_YIELD.  The run loop is a   *)
(* list of timers ordered by expiration, served from its head.             *)

\* Mutant: a timer counts as expired one tick early.
Expired_Early(timeout, time) ==
    timeout <= time + 1

\* A timer has expired when the clock has reached its timeout.
Expired(timeout, time) ==
    timeout <= time

\* btstack_run_loop_set_timer: the timeout is counted from now.
btstack_run_loop_set_timer(src, ts, timeout_in_ms, time) ==
    [src EXCEPT ![ts].timeout = time + timeout_in_ms]

\* The place of a new timer: behind every timer that does not expire
\* later than it.
RECURSIVE InsertByTimeout(_, _, _)
InsertByTimeout(list, src, ts) ==
    IF list = <<>> \/ src[ts].timeout < src[Head(list)].timeout
    THEN <<ts>> \o list
    ELSE <<Head(list)>> \o InsertByTimeout(Tail(list), src, ts)

\* Mutant: a new timer is put in front of the list.
btstack_run_loop_add_timer_AtHead(list, src, ts) ==
    <<ts>> \o list

\* btstack_run_loop_add_timer
btstack_run_loop_add_timer(list, src, ts) ==
    InsertByTimeout(list, src, ts)

\* Mutant: the timer stays in the list.
btstack_run_loop_remove_timer_KeepsTimer(list, ts) ==
    list

\* btstack_run_loop_remove_timer
btstack_run_loop_remove_timer(list, ts) ==
    SelectSeq(list, LAMBDA other : other # ts)

\* The timers a pass of the run loop calls back at the given time, in the
\* order of the calls: the head of the list while it has expired.
RECURSIVE ExpiredTimers(_, _, _)
ExpiredTimers(list, src, time) ==
    IF list = <<>> \/ ~Expired(src[Head(list)].timeout, time)
    THEN <<>>
    ELSE <<Head(list)>> \o ExpiredTimers(Tail(list), src, time)

\* handle_timer_timeout for each of the timers called back.
RECURSIVE handle_timer_timeout(_, _)
handle_timer_timeout(src, fired) ==
    IF fired = <<>> THEN src
    ELSE handle_timer_timeout(
             [src EXCEPT ![Head(fired)].callback_count = @ + 1],
             Tail(fired))

\* Bounds and inputs of the run-loop test.
MaxRunLoopClock == 3
TimerTimeouts == {1, 2, 3}
ClockTicks == {1, 2}

\* The timers that have been added and neither called back nor removed.
Armed == { ts \in TimerSources : q.state[ts] = "added" }

\* The events a pass adds to the trace: for each timer called back, the
\* pass, the time and the timers that were armed at that moment.
RECURSIVE FiredEvents(_, _, _)
FiredEvents(fired, pass, armed) ==
    IF fired = <<>> THEN <<>>
    ELSE <<[ts |-> Head(fired), pass |-> pass, time |-> clock,
            timeout |-> timer_source[Head(fired)].timeout,
            armed |-> armed]>>
         \o FiredEvents(Tail(fired), pass, armed \ {Head(fired)})

InitRunLoop ==
    /\ InitTask
    /\ obs = [model |-> "servo", angle |-> Angle(0), speed |-> 0,
              current |-> 0, speed_numeric |-> 0, stalled |-> FALSE,
              stall_start |-> 0, differentiator |-> Angle(0)]
    /\ now = 0
    /\ hist = <<>>
    /\ q = [state |-> [ts \in TimerSources |-> "idle"], passes |-> 0,
            last |-> "init", order |-> <<>>, removed |-> {},
            set |-> [ts \in TimerSources |-> [at |-> 0, t |-> 0]]]

\* Variables the run-loop test leaves alone.
runLoopFrame == <<obs, now, hist, pc, task, iodev, frame, tacho, counter,
                  pbio_light_animation_list_head, animations,
                  pbio_light_animation_process, etimer, process_events>>

\* The order in which the test sets its timers.
SetOrder == <<"timer_source", "timer_source_2", "timer_source_3">>

\* btstack_run_loop_set_timer(&ts, t), the timers in the order of the test.
SetTimer(ts, t) ==
    /\ q.state[ts] = "idle"
    /\ \A i, j \in 1..Len(SetOrder) :
           (i < j /\ SetOrder[j] = ts) => q.state[SetOrder[i]] # "idle"
    /\ timer_source' = btstack_run_loop_set_timer(timer_source, ts, t, clock)
    /\ q' = [q EXCEPT !.state[ts] = "set", !.last = "set",
                      !.set[ts] = [at |-> clock, t |-> t]]
    /\ UNCHANGED <<timers, clock, trace, runLoopFrame>>

\* btstack_run_loop_add_timer(&ts)
AddTimer(ts) ==
    /\ q.state[ts] = "set"
    /\ timers' = btstack_run_loop_add_timer(timers, timer_source, ts)
    /\ q' = [q EXCEPT !.state[ts] = "added", !.last = "add",
                      !.order = Append(@, ts)]
    /\ UNCHANGED <<timer_source, clock, trace, runLoopFrame>>

\* btstack_run_loop_remove_timer(&ts)
RemoveTimer(ts) ==
    /\ q.state[ts] = "added"
    /\ timers' = btstack_run_loop_remove_timer(timers, ts)
    /\ q' = [q EXCEPT !.state[ts] = "removed", !.last = "remove",
                      !.removed = @ \cup {ts}]
    /\ UNCHANGED <<timer_source, clock, trace, runLoopFrame>>

\* clock_tick(n)
ClockTick(n) ==
    /\ clock + n <= MaxRunLoopClock
    /\ clock' = clock + n
    /\ q' = [q EXCEPT !.last = "tick"]
    /\ UNCHANGED <<timers, timer_source, trace, runLoopFrame>>

\* PT_YIELD after clock_tick: one pass of the run loop, which calls back
\* the expired timers and takes them off the list.
RunLoopPass ==
    /\ q.last = "tick"
    /\ LET fired == ExpiredTimers(timers, timer_source, clock)
       IN /\ timers' = SubSeq(timers, Len(fired) + 1, Len(timers))
          /\ timer_source' = handle_timer_timeout(timer_source, fired)
          /\ trace' = trace \o FiredEvents(fired, q.passes + 1, Armed)
          /\ q' = [q EXCEPT
                     !.state = [ts \in TimerSources |->
                                  IF \E i \in 1..Len(fired) : fired[i] = ts
                                  THEN "fired" ELSE @[ts]],
                     !.passes = @ + 1,
                     !.last = "pass"]
    /\ UNCHANGED <<clock, runLoopFrame>>

NextRunLoop ==
    \/ \E ts \in TimerSources, t \in TimerTimeouts : SetTimer(ts, t)
    \/ \E ts \in TimerSources : AddTimer(ts)
    \/ \E ts \in TimerSources : RemoveTimer(ts)
    \/ \E n \in ClockTicks : ClockTick(n)
    \/ RunLoopPass

SpecRunLoop == InitRunLoop /\ [][NextRunLoop]_vars

\* The events of the trace that call back the timer ts.
CallsOf(ts) == { i \in 1..Len(trace) : trace[i].ts = ts }

\* C24: a timer that was set and added is called back once and no more, on
\* a pass at which the clock has reached the time it was set plus its
\* timeout; after every pass no armed timer has its expiration behind the
\* clock; armed timers with the same expiration are called back on the
\* same pass.
C24_CalledOnceWhenDue ==
    /\ \A ts \in TimerSources :
        /\ timer_source[ts].callback_count = Cardinality(CallsOf(ts))
        /\ timer_source[ts].callback_count <= 1
        /\ timer_source[ts].callback_count = 1 <=> q.state[ts] = "fired"
        /\ q.state[ts] = "fired" => q.set[ts].at + q.set[ts].t <= clock
    /\ \A i \in 1..Len(trace) :
           /\ trace[i].timeout <= trace[i].time
           /\ q.set[trace[i].ts].at + q.set[trace[i].ts].t <= trace[i].time
    /\ q.last = "pass" =>
           \A ts \in Armed : q.set[ts].at + q.set[ts].t > clock
    /\ \A i, j \in 1..Len(trace) :
           (trace[i].timeout = trace[j].timeout
                /\ trace[j].ts \in trace[i].armed)
               => trace[i].pass = trace[j].pass

\* C24 witness: three timers set at three different times with the same
\* expiration have all been called back on one pass, after two earlier
\* passes on which none of them was.
C24_Witness ==
    /\ Len(trace) = 3
    /\ \A i \in 1..3 : trace[i].pass = 3
    /\ \A ts \in TimerSources : q.set[ts].at + q.set[ts].t = clock
    /\ Cardinality({q.set[ts].at : ts \in TimerSources}) = 3
    /\ \A i \in 1..3 : trace[i].timeout = trace[i].time
    /\ \A ts \in TimerSources : timer_source[ts].callback_count = 1

\* C25: when a timer is called back, no timer that is armed at that moment
\* expires earlier, whatever the order in which the timers were added; so
\* the calls of timers that were armed together follow their expirations.
C25_CalledInExpirationOrder ==
    /\ \A i \in 1..Len(trace) :
           \A ts \in trace[i].armed :
               timer_source[ts].timeout >= trace[i].timeout
    /\ \A i, j \in 1..Len(trace) :
           (i < j /\ trace[j].ts \in trace[i].armed)
               => trace[i].timeout <= trace[j].timeout

\* C25 witness: three timers added latest expiration first, all armed
\* before the first call, have been called back on three passes, earliest
\* expiration first.
C25_Witness ==
    /\ Len(trace) = 3 /\ Len(q.order) = 3
    /\ trace[1].armed = TimerSources
    /\ \A i \in 1..3 : trace[i].ts = q.order[4 - i]
    /\ trace[1].timeout < trace[2].timeout
    /\ trace[2].timeout < trace[3].timeout
    /\ trace[1].pass < trace[2].pass /\ trace[2].pass < trace[3].pass

\* C26: a timer that the test removed while it was armed is never called
\* back.
C26_RemovedNeverCalled ==
    \A ts \in q.removed :
        /\ timer_source[ts].callback_count = 0
        /\ CallsOf(ts) = {}
        /\ \A i \in 1..Len(timers) : timers[i] # ts

\* C26 witness: a timer removed one tick before its expiration, the clock
\* two ticks further and a pass of the run loop made, another timer with
\* the same expiration called back.
C26_Witness ==
    \E ts \in q.removed, other \in TimerSources :
        /\ timer_source[ts].timeout < clock
        /\ q.last = "pass"
        /\ timer_source[ts].callback_count = 0
        /\ timer_source[other].timeout = timer_source[ts].timeout
        /\ timer_source[other].callback_count = 1

-----------------------------------------------------------------------------
(* animation.c: the list of started animations.  A list state is the head, *)
(* the animations, whether the process runs and whether every assert so    *)
(* far has held.                                                           *)

ListState(head, anims, process, asserts) ==
    [head |-> head, animations |-> anims, process |-> process,
     asserts |-> asserts]

\* pbio_light_animation_is_started
pbio_light_animation_is_started(animation) ==
    animation.next_animation # PBIO_LIGHT_ANIMATION_STOPPED

\* Mutant: start links the animation but does not start the process.
pbio_light_animation_start_NoProcess(st, a) ==
    LET anims == [st.animations EXCEPT
                    ![a].next_animation = st.head,
                    ![a].timer = "running"]
    IN ListState(a, anims, st.process, st.asserts)

\* pbio_light_animation_start
pbio_light_animation_start(st, a) ==
    LET entry == st.animations[a].next_animation
                     = PBIO_LIGHT_ANIMATION_STOPPED
        anims == [st.animations EXCEPT
                    ![a].next_animation = st.head,
                    ![a].timer = "running"]
        exit == anims[a].next_animation # PBIO_LIGHT_ANIMATION_STOPPED
    IN ListState(a, anims, TRUE, st.asserts /\ entry /\ exit)

\* Mutant: the animation in front of a becomes the end of the list.
RECURSIVE Unlink_DropsTail(_, _, _, _)
Unlink_DropsTail(anims, x, a, fuel) ==
    IF x = NULL \/ x = PBIO_LIGHT_ANIMATION_STOPPED \/ fuel = 0
    THEN anims
    ELSE IF anims[x].next_animation = a
         THEN [anims EXCEPT ![x].next_animation = NULL]
         ELSE Unlink_DropsTail(anims, anims[x].next_animation, a, fuel - 1)

\* The for loop of pbio_light_animation_stop from the animation x on: the
\* animation in front of a is linked to the one behind it.  The loop ends
\* at NULL; fuel bounds the walk.
RECURSIVE Unlink(_, _, _, _)
Unlink(anims, x, a, fuel) ==
    IF x = NULL \/ x = PBIO_LIGHT_ANIMATION_STOPPED \/ fuel = 0
    THEN anims
    ELSE IF anims[x].next_animation = a
         THEN [anims EXCEPT ![x].next_animation = anims[a].next_animation]
         ELSE Unlink(anims, anims[x].next_animation, a, fuel - 1)

\* Mutant: stop takes the head off the list, whichever animation it is
\* called for.
pbio_light_animation_stop_Head(st, a) ==
    LET h == st.head
        stopped == [st.animations EXCEPT ![h].timer = "stopped"]
    IN ListState(stopped[h].next_animation,
                 [stopped EXCEPT
                    ![h].next_animation = PBIO_LIGHT_ANIMATION_STOPPED],
                 st.process /\ stopped[h].next_animation # NULL,
                 st.asserts)

\* Mutant: the animation is taken off the list but not marked as stopped.
pbio_light_animation_stop_KeepsLink(st, a) ==
    LET stopped == [st.animations EXCEPT ![a].timer = "stopped"]
    IN IF st.head = a
       THEN ListState(stopped[a].next_animation, stopped,
                      st.process /\ stopped[a].next_animation # NULL,
                      st.asserts)
       ELSE ListState(st.head,
                      Unlink(stopped, st.head, a, Cardinality(Animations)),
                      st.process, st.asserts)

\* pbio_light_animation_stop
pbio_light_animation_stop(st, a) ==
    LET entry == /\ st.head # NULL
                 /\ st.animations[a].next_animation
                        # PBIO_LIGHT_ANIMATION_STOPPED
        stopped == [st.animations EXCEPT ![a].timer = "stopped"]
        head == IF st.head = a THEN stopped[a].next_animation ELSE st.head
        process == IF st.head = a /\ head = NULL THEN FALSE ELSE st.process
        unlinked == IF st.head = a THEN stopped
                    ELSE Unlink(stopped, st.head, a, Cardinality(Animations))
    IN ListState(head,
                 [unlinked EXCEPT
                    ![a].next_animation = PBIO_LIGHT_ANIMATION_STOPPED],
                 process, st.asserts /\ entry)

\* The while loop of pbio_light_animation_stop_all with a bound on its
\* rounds: the list state when the head is NULL, and whether that was
\* reached within the bound.
RECURSIVE StopWhileHead(_, _)
StopWhileHead(st, rounds) ==
    IF st.head = NULL THEN [state |-> st, returned |-> TRUE]
    ELSE IF rounds = 0 THEN [state |-> st, returned |-> FALSE]
    ELSE StopWhileHead(pbio_light_animation_stop(st, st.head), rounds - 1)

\* Mutant: only the head of the list is stopped.
pbio_light_animation_stop_all_HeadOnly(st) ==
    IF st.head = NULL THEN [state |-> st, returned |-> TRUE]
    ELSE [state |-> pbio_light_animation_stop(st, st.head),
          returned |-> TRUE]

\* pbio_light_animation_stop_all
pbio_light_animation_stop_all(st) ==
    StopWhileHead(st, Cardinality(Animations) + 1)

MaxAnimationCalls == 5

\* The list state of the variables.
Light ==
    ListState(pbio_light_animation_list_head, animations,
              pbio_light_animation_process, q.asserts)

InitLight ==
    /\ InitTask
    /\ obs = [model |-> "servo", angle |-> Angle(0), speed |-> 0,
              current |-> 0, speed_numeric |-> 0, stalled |-> FALSE,
              stall_start |-> 0, differentiator |-> Angle(0)]
    /\ now = 0
    /\ hist = <<>>
    /\ q = [started |-> {}, asserts |-> TRUE, returned |-> TRUE,
            last |-> "init", before |-> {}, asked |-> NULL,
            answer |-> FALSE]

\* Variables the animation calls leave alone.
lightFrame == <<obs, now, pc, task, iodev, clock, frame, trace, tacho,
                counter, timers, timer_source, etimer, process_events>>

\* The variables after a call that left the list state st.
LightBecomes(st) ==
    /\ pbio_light_animation_list_head' = st.head
    /\ animations' = st.animations
    /\ pbio_light_animation_process' = st.process

\* pbio_light_animation_start(a), for an animation that the caller has not
\* started or has stopped since.
AnimationStart(a) ==
    /\ Len(hist) < MaxAnimationCalls
    /\ a \notin q.started
    /\ LET st == pbio_light_animation_start(Light, a)
       IN /\ LightBecomes(st)
          /\ q' = [q EXCEPT !.started = @ \cup {a}, !.asserts = st.asserts,
                            !.last = "start", !.asked = NULL]
    /\ hist' = Append(hist, <<"start", a>>)
    /\ UNCHANGED lightFrame

\* pbio_light_animation_stop(a), for an animation that the caller has
\* started and that has not been stopped since.
AnimationStop(a) ==
    /\ Len(hist) < MaxAnimationCalls
    /\ a \in q.started
    /\ LET st == pbio_light_animation_stop(Light, a)
       IN /\ LightBecomes(st)
          /\ q' = [q EXCEPT !.started = @ \ {a}, !.asserts = st.asserts,
                            !.last = "stop", !.asked = NULL]
    /\ hist' = Append(hist, <<"stop", a>>)
    /\ UNCHANGED lightFrame

\* pbio_light_animation_stop_all()
AnimationStopAll ==
    /\ Len(hist) < MaxAnimationCalls
    /\ LET r == pbio_light_animation_stop_all(Light)
       IN /\ LightBecomes(r.state)
          /\ q' = [q EXCEPT !.started = {}, !.asserts = r.state.asserts,
                            !.returned = r.returned, !.last = "stop_all",
                            !.before = q.started, !.asked = NULL]
    /\ hist' = Append(hist, <<"stop_all", NULL>>)
    /\ UNCHANGED lightFrame

\* pbio_light_animation_is_started(a)
AnimationIsStarted(a) ==
    /\ Len(hist) < MaxAnimationCalls
    /\ q.asked = NULL
    /\ q' = [q EXCEPT !.asked = a, !.last = "is_started",
                      !.answer =
                          pbio_light_animation_is_started(animations[a])]
    /\ hist' = Append(hist, <<"is_started", a>>)
    /\ UNCHANGED <<pbio_light_animation_list_head, animations,
                   pbio_light_animation_process, lightFrame>>

NextLight ==
    \/ \E a \in Animations : AnimationStart(a)
    \/ \E a \in Animations : AnimationStop(a)
    \/ AnimationStopAll
    \/ \E a \in Animations : AnimationIsStarted(a)

SpecLight == InitLight /\ [][NextLight]_vars

\* The animations on the list, from the animation x on.
RECURSIVE OnList(_, _)
OnList(x, fuel) ==
    IF x \notin Animations \/ fuel = 0 THEN {}
    ELSE {x} \cup OnList(animations[x].next_animation, fuel - 1)

\* C27: an animation is started exactly when the caller has started it and
\* neither stop nor stop_all has stopped it since; the answer of
\* pbio_light_animation_is_started says so; every assert of start and stop
\* has held, for callers that stop an animation once between two starts.
C27_StartedIffOnList ==
    /\ \A a \in Animations :
           pbio_light_animation_is_started(animations[a])
               <=> a \in q.started
    /\ q.asked # NULL => (q.answer <=> q.asked \in q.started)
    /\ q.asserts
    /\ OnList(pbio_light_animation_list_head, Cardinality(Animations) + 1)
           = q.started

\* C27 witness: an animation that was started, stopped from the middle of
\* the list and started again answers started, another one was never
\* started and a third is still on the list.
C27_Witness ==
    /\ Len(hist) = 5
    /\ hist[1] = <<"start", "animation_1">>
    /\ hist[2] = <<"start", "animation_2">>
    /\ hist[3] = <<"stop", "animation_1">>
    /\ hist[4] = <<"start", "animation_1">>
    /\ hist[5] = <<"is_started", "animation_1">>
    /\ q.answer
    /\ ~pbio_light_animation_is_started(animations["animation_3"])
    /\ animations["animation_1"].next_animation = "animation_2"

\* C27 (stopped): the answer after a stop is false.
C27_StoppedAnswer ==
    /\ q.asked # NULL /\ ~q.answer
    /\ Len(hist) >= 3
    /\ hist[Len(hist) - 1] = <<"stop", q.asked>>

\* C28: pbio_light_animation_stop_all returns, and when it has returned the
\* list is empty, no animation is started, every timer is stopped and the
\* process has exited.
C28_StopAllStopsAll ==
    q.last = "stop_all" =>
        /\ q.returned
        /\ pbio_light_animation_list_head = NULL
        /\ \A a \in Animations :
               /\ ~pbio_light_animation_is_started(animations[a])
               /\ animations[a].timer = "stopped"
        /\ ~pbio_light_animation_process
        /\ q.asserts

\* C28 witness: stop_all has stopped three started animations.
C28_Witness ==
    /\ q.last = "stop_all"
    /\ q.before = Animations
    /\ q.returned
    /\ pbio_light_animation_list_head = NULL

\* C28 (empty list): stop_all on an empty list returns at once.
C28_NothingStarted ==
    /\ q.last = "stop_all"
    /\ q.before = {}
    /\ q.returned

-----------------------------------------------------------------------------
(* The exception paths of pb_remote_connect and wait.                      *)

\* The wrapper call in progress was interrupted, or timed out.
Interrupted == "interrupt" \in Events
TimedOut == "timeout" \in Events

\* The handler of a wrapper runs.
InHandler ==
    pc \in {"connect_except", "connect_drain", "wait_except", "wait_drain"}

\* C29: a call that was interrupted while its operation was running keeps
\* the interrupt as its exception through the handler, cancels the
\* operation once, polls until the operation has ended and ends by raising
\* the interrupt: it does not return and does not raise the error of the
\* operation.
C29_InterruptReraised ==
    /\ (Interrupted /\ InHandler) => frame.exc = "KeyboardInterrupt"
    /\ (Interrupted /\ pc = "idle") =>
           /\ frame.result = "KeyboardInterrupt"
           /\ trace \in {<<"start", "interrupt", "cancel", "terminal",
                           "raise">>,
                         <<"start", "interrupt", "cancel", "again",
                           "terminal", "raise">>}

\* C29 witness: wait was interrupted, cancelled the operation, polled it
\* while it was still running and raised the interrupt although the
\* operation ended with its own error.
C29_Witness ==
    /\ pc = "idle"
    /\ trace = <<"start", "interrupt", "cancel", "again", "terminal",
                 "raise">>
    /\ iodev.status = "ECANCELED" /\ iodev.cancels = 1
    /\ frame.timeout = -1 /\ task.status = "SUCCESS"
    /\ frame.result = "KeyboardInterrupt"

\* C29 (pb_remote_connect): the same for an interrupted connect.
C29_ConnectInterrupted ==
    /\ pc = "idle"
    /\ Interrupted
    /\ "again" \in Events
    /\ task.status = "ECANCELED" /\ task.cancels = 1
    /\ frame.result = "KeyboardInterrupt"

\* The cancel hook of one of the operations is called in this step.
CancelCalled ==
    task'.cancels > task.cancels \/ iodev'.cancels > iodev.cancels

\* C30: a call whose operation ended on its own, with no timeout and no
\* interrupt, has not entered the handler and has made no call of the
\* cancel hook: it consists of the start, the end of the operation and the
\* return or the error of the operation.
C30_NoCancelOnTerminal ==
    /\ [](InHandler => (Interrupted \/ TimedOut))
    /\ []((pc = "idle" /\ trace # <<>> /\ ~Interrupted /\ ~TimedOut) =>
              /\ trace = <<"start", "terminal", "return">>
              /\ frame.result \in {"ok", "FAILED"}
              /\ frame.exc = "none")
    /\ [][CancelCalled => (Interrupted \/ TimedOut)]_vars

\* C30 witness: a connect has ended with the error of the operation, which
\* was never cancelled.
C30_Witness ==
    /\ pc = "idle"
    /\ trace = <<"start", "terminal", "return">>
    /\ frame.timeout # -1
    /\ frame.result = "FAILED"
    /\ task.status = "FAILED" /\ task.cancels = 0 /\ ~task.cancel

\* C30 (success): wait has returned normally, the operation never
\* cancelled.
C30_Success ==
    /\ pc = "idle"
    /\ trace = <<"start", "terminal", "return">>
    /\ frame.timeout = -1 /\ frame.result = "ok"
    /\ iodev.status = "SUCCESS" /\ iodev.cancels = 0
    /\ frame.again > 0

-----------------------------------------------------------------------------
(* The stall check on its own: update_stall_state for one observer state   *)
(* and one pair of voltages, and for the same with every sign turned.      *)

\* Estimated speeds, on both sides of stall_speed_limit and at the clamp.
StallSpeeds ==
    {-MAX_NUM_SPEED, -20000, -19999, 0, 19999, 20000, MAX_NUM_SPEED}

\* Commanded voltages other than zero, up to the largest whose threefold is
\* an int32_t.
StallVoltages ==
    {-715827882, -MAX_NUM_VOLTAGE, -6000, -600, -1,
     1, 600, 6000, MAX_NUM_VOLTAGE, 715827882}

\* Feedback voltages, as pbio_observer_get_feedback_voltage clamps them.
StallFeedbacks ==
    {-MAX_NUM_VOLTAGE, -4501, -4500, -1, 0, 1, 4500, 4501, MAX_NUM_VOLTAGE}

InitStall ==
    /\ InitTask
    /\ \E type \in DOMAIN Models, speed \in StallSpeeds,
          stalled \in BOOLEAN :
        obs = [model |-> type, angle |-> Angle(0), speed |-> speed,
               current |-> 0, speed_numeric |-> 0, stalled |-> stalled,
               stall_start |-> -3, differentiator |-> Angle(0)]
    /\ now \in BootTimes
    /\ hist = <<>>
    /\ \E voltage \in StallVoltages, feedback_voltage \in StallFeedbacks :
        q = [voltage |-> voltage, feedback_voltage |-> feedback_voltage,
             checked |-> FALSE, stalled |-> FALSE, stall_start |-> 0,
             mirrored |-> FALSE, m_stalled |-> FALSE, m_stall_start |-> 0]

\* update_stall_state for the observer and the voltages as they are.
StallCheck ==
    /\ ~q.checked
    /\ LET o == update_stall_state(obs, now, PBIO_DCMOTOR_ACTUATION_VOLTAGE,
                                   q.voltage, q.feedback_voltage)
       IN q' = [q EXCEPT !.checked = TRUE, !.stalled = o.stalled,
                         !.stall_start = o.stall_start]
    /\ UNCHANGED <<obs, now, hist, taskVars, libVars>>

\* update_stall_state for the observer running the other way at the same
\* speed, with the voltages of the other sign.
StallCheckMirrored ==
    /\ ~q.mirrored
    /\ LET o == update_stall_state([obs EXCEPT !.speed = -obs.speed], now,
                                   PBIO_DCMOTOR_ACTUATION_VOLTAGE,
                                   -q.voltage, -q.feedback_voltage)
       IN q' = [q EXCEPT !.mirrored = TRUE, !.m_stalled = o.stalled,
                         !.m_stall_start = o.stall_start]
    /\ UNCHANGED <<obs, now, hist, taskVars, libVars>>

NextStall == StallCheck \/ StallCheckMirrored

SpecStall == InitStall /\ [][NextStall]_vars

\* C31: under VOLTAGE actuation with a commanded voltage other than zero,
\* the stall check gives the same stalled flag and the same stall_start for
\* (speed, voltage, feedback_voltage) and for (-speed, -voltage,
\* -feedback_voltage), from the same prior flag at the same time.
C31_StallSymmetric ==
    (q.checked /\ q.mirrored) =>
        /\ q.stalled = q.m_stalled
        /\ q.stall_start = q.m_stall_start

\* Both checks were made for a reverse drive that is held back: the flag
\* rises in both and stall_start is the time of the check.
C31_Witness ==
    /\ q.checked /\ q.mirrored
    /\ q.voltage < 0 /\ q.feedback_voltage > 0
    /\ ~obs.stalled
    /\ q.stalled /\ q.m_stalled
    /\ q.stall_start = now /\ q.m_stall_start = now

\* Both checks were made and neither raised the flag.
C31_NotStalled ==
    /\ q.checked /\ q.mirrored
    /\ ~q.stalled /\ ~q.m_stalled
    /\ obs.stalled

-----------------------------------------------------------------------------
(* The observer at rest.                                                   *)

\* The last call was an update of an observer at rest (speed and current
\* zero) with a commanded voltage of zero and a measured angle equal to the
\* estimated one.
UpdatedAtRest ==
    /\ hist # <<>>
    /\ LET h == hist[Len(hist)]
       IN /\ h.op = "update"
          /\ h.voltage = 0
          /\ h.pre.speed = 0 /\ h.pre.current = 0
          /\ h.angle = h.pre.angle

\* C32: an update of an observer at rest with a commanded voltage of zero
\* and a measured angle equal to the estimated angle leaves the estimated
\* angle, speed and current as they were.
C32_RestIsFixedPoint ==
    UpdatedAtRest =>
        LET h == hist[Len(hist)]
        IN /\ obs.angle = h.pre.angle
           /\ obs.speed = 0
           /\ obs.current = 0

\* C32 (what the update does): the feedback voltage is zero, so the only
\* term of the sums is the friction torque, which has the sign of speed > 0
\* being false; each of angle, speed and current moves by its share of it.
C32_RestMovedByFriction ==
    UpdatedAtRest =>
        LET h == hist[Len(hist)]
            torque == CDiv(-model.torque_friction, 2)
        IN /\ obs.angle = pbio_angle_add_mdeg(h.pre.angle,
                              PrescaleDiv(PRESCALE_TORQUE, torque,
                                          model.d_angle_d_torque))
           /\ obs.speed = PrescaleDiv(PRESCALE_TORQUE, torque,
                                      model.d_speed_d_torque)
           /\ obs.current = PrescaleDiv(PRESCALE_TORQUE, torque,
                                        model.d_current_d_torque)

\* An observer at rest was updated and its estimated speed is not zero.
C32_RestLeft ==
    UpdatedAtRest /\ obs.speed # 0

-----------------------------------------------------------------------------
(* One model step on its own: pbio_observer_update for an observer state   *)
(* within the clamp ranges and a commanded voltage within +-12000 mV.      *)

\* prescale * x is an int32_t.
ProductFits(prescale, x) ==
    /\ x <= CDiv(INT32_MAX, prescale)
    /\ x >= CDiv(INT32_MIN, prescale)

\* pbio_observer_update, line 144: the voltage that enters the sums.
EffectiveVoltage(o, angle, voltage) ==
    AddI32(voltage, pbio_observer_get_feedback_voltage(o, angle))

\* Estimated speeds and currents within their clamp ranges.
StepSpeeds == {-MAX_NUM_SPEED, 0, MAX_NUM_SPEED}
StepCurrents == {-MAX_NUM_CURRENT, 0, MAX_NUM_CURRENT}

\* Commanded voltages within +-MAX_NUM_VOLTAGE.
StepVoltages == {-MAX_NUM_VOLTAGE, -6000, 0, 6000, MAX_NUM_VOLTAGE}

\* Measured angles; the estimated angle is 0.
StepAngles == {Angle(-7000), Angle(-1), Angle(0), Angle(1), Angle(7000)}

InitStep ==
    /\ InitTask
    /\ \E type \in DOMAIN Models, speed \in StepSpeeds,
          current \in StepCurrents :
        obs = [model |-> type, angle |-> Angle(0), speed |-> speed,
               current |-> current, speed_numeric |-> 0, stalled |-> FALSE,
               stall_start |-> 0, differentiator |-> Angle(0)]
    /\ now \in BootTimes
    /\ hist = <<>>
    /\ \E voltage \in StepVoltages, angle \in StepAngles :
        q = [voltage |-> voltage, angle |-> angle, stepped |-> FALSE,
             speed |-> 0, current |-> 0, effective |-> 0, torque |-> 0]

\* pbio_observer_update; the factors of its four prescaled products are
\* kept.
Step ==
    /\ ~q.stepped
    /\ now' = AddI32(now, 1)
    /\ obs' = pbio_observer_update(obs, now', q.angle,
                                   PBIO_DCMOTOR_ACTUATION_VOLTAGE, q.voltage)
    /\ q' = [q EXCEPT !.stepped = TRUE,
                      !.speed = obs.speed,
                      !.current = obs.current,
                      !.effective = EffectiveVoltage(obs, q.angle, q.voltage),
                      !.torque = FrictionTorque(obs)]
    /\ UNCHANGED <<hist, taskVars, libVars>>

NextStep == Step

SpecStep == InitStep /\ [][NextStep]_vars

\* C33: in an update with a commanded voltage within +-12000 mV and speed
\* and current within their clamp ranges, the products 858 * speed,
\* 71582 * current, 178956 * (voltage + feedback_voltage) and 2147 * torque
\* are int32_t values, the voltage that enters the sums being within
\* +-12000 mV.
C33_NoOverflow ==
    q.stepped =>
        /\ ProductFits(PRESCALE_SPEED, q.speed)
        /\ ProductFits(PRESCALE_CURRENT, q.current)
        /\ ProductFits(PRESCALE_VOLTAGE, q.effective)
        /\ ProductFits(PRESCALE_TORQUE, q.torque)
        /\ q.effective >= -MAX_NUM_VOLTAGE
        /\ q.effective <= MAX_NUM_VOLTAGE

\* C33 (the other products): the products of speed, current and torque are
\* int32_t values, and so is the product of the commanded voltage alone.
C33_OtherProductsFit ==
    q.stepped =>
        /\ ProductFits(PRESCALE_SPEED, q.speed)
        /\ ProductFits(PRESCALE_CURRENT, q.current)
        /\ ProductFits(PRESCALE_TORQUE, q.torque)
        /\ ProductFits(PRESCALE_VOLTAGE, q.voltage)
        /\ q.effective >= -2 * MAX_NUM_VOLTAGE
        /\ q.effective <= 2 * MAX_NUM_VOLTAGE

\* A step at the clamps of speed and current with the full voltage, in which
\* the feedback has the sign of the commanded voltage.
C33_FeedbackAdds ==
    /\ q.stepped
    /\ q.speed = MAX_NUM_SPEED /\ q.current = MAX_NUM_CURRENT
    /\ q.voltage = MAX_NUM_VOLTAGE
    /\ q.effective > MAX_NUM_VOLTAGE

-----------------------------------------------------------------------------
(* The list of started animations.                                         *)

\* The animations met on the way from x along next_animation, in order.
RECURSIVE ListFrom(_, _)
ListFrom(x, fuel) ==
    IF x \notin Animations \/ fuel = 0 THEN <<>>
    ELSE <<x>> \o ListFrom(animations[x].next_animation, fuel - 1)

\* Where that way ends: NULL, PBIO_LIGHT_ANIMATION_STOPPED, or an animation
\* when the way is longer than there are animations.
RECURSIVE ListEnd(_, _)
ListEnd(x, fuel) ==
    IF x \notin Animations \/ fuel = 0 THEN x
    ELSE ListEnd(animations[x].next_animation, fuel - 1)

\* The list from pbio_light_animation_list_head.
AnimationList ==
    ListFrom(pbio_light_animation_list_head, Cardinality(Animations) + 1)

\* How often the animation a is on the list.
TimesOnList(a) ==
    Cardinality({i \in 1..Len(AnimationList) : AnimationList[i] = a})

\* The sequence s without the element a.
RECURSIVE Without(_, _)
Without(s, a) ==
    IF s = <<>> THEN <<>>
    ELSE IF Head(s) = a THEN Without(Tail(s), a)
    ELSE <<Head(s)>> \o Without(Tail(s), a)

\* C34: after every sequence of valid start, stop and stop_all calls a
\* started animation is on the list from the head exactly once, a stopped
\* one is not on it, and the list ends at NULL without a cycle.
C34_ListInvariant ==
    /\ ListEnd(pbio_light_animation_list_head, Cardinality(Animations) + 1)
           = NULL
    /\ \A a \in Animations :
           TimesOnList(a) =
               IF pbio_light_animation_is_started(animations[a]) THEN 1
               ELSE 0

\* C34 witness: three animations were started, the middle one was stopped
\* and started again; the list holds each of them once.
C34_Witness ==
    /\ Len(hist) = 5
    /\ hist[4] = <<"stop", "animation_2">>
    /\ hist[5] = <<"start", "animation_2">>
    /\ AnimationList = <<"animation_2", "animation_3", "animation_1">>
    /\ animations["animation_1"].next_animation = NULL

\* C35: pbio_light_animation_stop(a) takes a, and only a, off the list: the
\* other animations are started or stopped as before, the list is the list
\* before without a, and the timers of the others are as before, wherever
\* on the list a was.
C35_StopRemovesOnlyOne ==
    [][\A a \in Animations :
           hist' = Append(hist, <<"stop", a>>) =>
               /\ AnimationList' = Without(AnimationList, a)
               /\ a \notin {AnimationList'[i] : i \in 1..Len(AnimationList')}
               /\ \A b \in Animations \ {a} :
                      /\ animations'[b].timer = animations[b].timer
                      /\ pbio_light_animation_is_started(animations'[b])
                             = pbio_light_animation_is_started(animations[b])
      ]_vars

\* C35 witness: with three animations on the list, the one in the middle
\* was stopped, then the one at the tail; the head is left alone on the
\* list with its timer running.
C35_Witness ==
    /\ Len(hist) = 5
    /\ hist[1] = <<"start", "animation_1">>
    /\ hist[2] = <<"start", "animation_2">>
    /\ hist[3] = <<"start", "animation_3">>
    /\ hist[4] = <<"stop", "animation_2">>
    /\ hist[5] = <<"stop", "animation_1">>
    /\ AnimationList = <<"animation_3">>
    /\ animations["animation_3"].timer = "running"
    /\ animations["animation_1"].timer = "stopped"
    /\ animations["animation_2"].timer = "stopped"

\* C36: after every sequence of start, stop and stop_all calls the
\* animation process is running exactly when an animation is started.
C36_ProcessIffStarted ==
    pbio_light_animation_process
        <=> \E a \in Animations :
                pbio_light_animation_is_started(animations[a])

\* C36 witness: two animations were started and stopped in the order of
\* their starts, the head last; the process has exited.
C36_Witness ==
    /\ Len(hist) = 4
    /\ hist[1] = <<"start", "animation_1">>
    /\ hist[2] = <<"start", "animation_2">>
    /\ hist[3] = <<"stop", "animation_1">>
    /\ hist[4] = <<"stop", "animation_2">>
    /\ ~pbio_light_animation_process

\* C36 (still running): the head of two animations was stopped and the
\* process is still running for the other.
C36_StillRunning ==
    /\ Len(hist) = 3
    /\ hist[1] = <<"start", "animation_1">>
    /\ hist[2] = <<"start", "animation_2">>
    /\ hist[3] = <<"stop", "animation_2">>
    /\ pbio_light_animation_process

-----------------------------------------------------------------------------
(* The animation process (animation.c, lines 113-132) with the event       *)
(* timers and the event queue of the scheduler.  An expired event timer    *)
(* posts a timer event to the process and is off the timer list; the       *)
(* process handles one posted event at a time, and the callers of start    *)
(* and stop run between two events.  The clock does not wrap here.         *)

\* etimer_set at the time given.
etimer_set(interval, time) == [start |-> time, interval |-> interval]

\* etimer_expiration_time
etimer_expiration_time(et) == et.start + et.interval

\* etimer_reset_with_new_interval: the timer runs from its last expiration.
etimer_reset_with_new_interval(et, interval) ==
    [start |-> et.start + et.interval, interval |-> interval]

\* etimer_restart at the time given.
etimer_restart(et, time) == [et EXCEPT !.start = time]

\* Whether the event timer has expired at the time given.
etimer_expired(et, time) == time - et.start >= et.interval

\* Mutant: the process arms the timer again whatever the callback did.
TimerRearmed_Always(animation) == TRUE

\* pbio_light_animation_process, line 121: the timer is armed again only
\* when the animation is still started after its callback.
TimerRearmed(animation) == pbio_light_animation_is_started(animation)

\* pbio_light_animation_process, lines 122-127: the timer after it has been
\* armed again with the interval the callback returned.
Rearm(et, interval, time) ==
    LET reset == etimer_reset_with_new_interval(et, interval)
    IN IF time > etimer_expiration_time(reset)
       THEN etimer_restart(etimer_reset_with_new_interval(reset, 0), time)
       ELSE reset

\* What a next callback does: it returns an interval, and it may stop its
\* own animation.
Intervals == {0, 1}
Callbacks == [stops : BOOLEAN, interval : Intervals]

\* pbio_light_animation_process for one timer event of the animation a: the
\* callback runs, then the timer is armed again or left alone.
pbio_light_animation_process_thread(st, ets, a, cb, time) ==
    LET called == IF cb.stops THEN pbio_light_animation_stop(st, a) ELSE st
        again == TimerRearmed(called.animations[a])
    IN [state |-> IF again
                  THEN [called EXCEPT !.animations[a].timer = "running"]
                  ELSE called,
        etimer |-> IF again
                   THEN [ets EXCEPT ![a] = Rearm(ets[a], cb.interval, time)]
                   ELSE ets]

\* Bounds of the process model.
MaxAnimSteps == 8
MaxAnimClock == 2

\* The animations of the process model.
ProcessAnimations == {"animation_1", "animation_2"}

NoCallback ==
    [a |-> NULL, was_started |-> FALSE, was_quiet |-> FALSE,
     was_selfstopped |-> FALSE, stops |-> FALSE, interval |-> 0,
     time |-> 0, before |-> [start |-> 0, interval |-> 0]]

\* The animations with a timer event in the queue.
Posted(events) == {events[i] : i \in 1..Len(events)}

InitAnim ==
    /\ InitTask
    /\ obs = [model |-> "servo", angle |-> Angle(0), speed |-> 0,
              current |-> 0, speed_numeric |-> 0, stalled |-> FALSE,
              stall_start |-> 0, differentiator |-> Angle(0)]
    /\ now = 0
    /\ hist = <<>>
    /\ q = [asserts |-> TRUE, steps |-> 0, last |-> NoCallback,
            stopped |-> {}, quiet |-> {}, selfstopped |-> {}]

\* Variables the animation process and its callers leave alone.
animFrame == <<obs, now, hist, pc, task, iodev, frame, trace, tacho,
               counter, timers, timer_source>>

\* pbio_light_animation_start(a) by the user program, for an animation that
\* is not started.
ProcessStart(a) ==
    /\ q.steps < MaxAnimSteps
    /\ ~pbio_light_animation_is_started(animations[a])
    /\ LET st == pbio_light_animation_start(Light, a)
       IN /\ LightBecomes(st)
          /\ q' = [q EXCEPT !.steps = @ + 1, !.asserts = st.asserts,
                            !.last = NoCallback,
                            !.stopped = @ \ {a}, !.quiet = @ \ {a},
                            !.selfstopped = @ \ {a}]
    /\ etimer' = [etimer EXCEPT ![a] = etimer_set(0, clock)]
    /\ UNCHANGED <<clock, process_events, animFrame>>

\* pbio_light_animation_stop(a) by the user program, for an animation that
\* is started.
ProcessStop(a) ==
    /\ q.steps < MaxAnimSteps
    /\ pbio_light_animation_is_started(animations[a])
    /\ LET st == pbio_light_animation_stop(Light, a)
       IN /\ LightBecomes(st)
          /\ q' = [q EXCEPT !.steps = @ + 1, !.asserts = st.asserts,
                            !.last = NoCallback,
                            !.stopped = @ \cup {a},
                            !.quiet = IF a \in Posted(process_events)
                                      THEN @ ELSE @ \cup {a}]
    /\ UNCHANGED <<clock, etimer, process_events, animFrame>>

\* The clock tick.
AnimTick ==
    /\ q.steps < MaxAnimSteps
    /\ clock < MaxAnimClock
    /\ clock' = clock + 1
    /\ q' = [q EXCEPT !.steps = @ + 1, !.last = NoCallback]
    /\ UNCHANGED <<pbio_light_animation_list_head, animations,
                   pbio_light_animation_process, etimer, process_events,
                   animFrame>>

\* The event timer of a has expired: it is taken off the timer list and a
\* timer event is posted to the animation process.
TimerExpires(a) ==
    /\ q.steps < MaxAnimSteps
    /\ animations[a].timer = "running"
    /\ etimer_expired(etimer[a], clock)
    /\ animations' = [animations EXCEPT ![a].timer = "expired"]
    /\ process_events' = Append(process_events, a)
    /\ q' = [q EXCEPT !.steps = @ + 1, !.last = NoCallback]
    /\ UNCHANGED <<pbio_light_animation_list_head,
                   pbio_light_animation_process, clock, etimer, animFrame>>

\* The scheduler hands the oldest posted timer event to a process that has
\* exited: the event is dropped.
TimerEventDropped ==
    /\ q.steps < MaxAnimSteps
    /\ process_events # <<>>
    /\ ~pbio_light_animation_process
    /\ process_events' = Tail(process_events)
    /\ q' = [q EXCEPT !.steps = @ + 1, !.last = NoCallback]
    /\ UNCHANGED <<pbio_light_animation_list_head, animations,
                   pbio_light_animation_process, clock, etimer, animFrame>>

\* The scheduler hands the oldest posted timer event to the animation
\* process: one round of its loop.  A callback stops its animation only
\* when it is started.
TimerEvent(cb) ==
    /\ q.steps < MaxAnimSteps
    /\ process_events # <<>>
    /\ pbio_light_animation_process
    /\ LET a == Head(process_events)
           started == pbio_light_animation_is_started(animations[a])
           r == pbio_light_animation_process_thread(Light, etimer, a, cb,
                                                    clock)
           quiet == a \notin Posted(Tail(process_events))
       IN /\ cb.stops => started
          /\ LightBecomes(r.state)
          /\ etimer' = r.etimer
          /\ q' = [q EXCEPT
                     !.steps = @ + 1,
                     !.asserts = r.state.asserts,
                     !.last = [a |-> a, was_started |-> started,
                               was_quiet |-> a \in q.quiet,
                               was_selfstopped |-> a \in q.selfstopped,
                               stops |-> cb.stops,
                               interval |-> cb.interval, time |-> clock,
                               before |-> etimer[a]],
                     !.stopped = IF cb.stops THEN @ \cup {a} ELSE @,
                     !.selfstopped = IF cb.stops THEN @ \cup {a} ELSE @,
                     !.quiet = IF cb.stops /\ quiet THEN @ \cup {a} ELSE @]
    /\ process_events' = Tail(process_events)
    /\ UNCHANGED <<clock, animFrame>>

NextAnim ==
    \/ \E a \in ProcessAnimations : ProcessStart(a)
    \/ \E a \in ProcessAnimations : ProcessStop(a)
    \/ AnimTick
    \/ \E a \in ProcessAnimations : TimerExpires(a)
    \/ TimerEventDropped
    \/ \E cb \in Callbacks : TimerEvent(cb)

SpecAnim == InitAnim /\ [][NextAnim]_vars

\* The animation of the last callback.
Called == animations[q.last.a]

C37_Late ==
    /\ q.last.a # NULL /\ ~q.last.stops /\ q.last.was_started
    /\ q.last.interval = 1
    /\ etimer[q.last.a] = [start |-> clock, interval |-> 0]

\* C37 (in time): a callback returned the interval 1 in time and the timer
\* is armed with it.
C37_InTime ==
    /\ q.last.a # NULL /\ ~q.last.stops /\ q.last.was_started
    /\ etimer[q.last.a].interval = 1

\* C38: the next callback is called only for an animation that is started:
\* once pbio_light_animation_stop has returned for an animation, its
\* callback is not called until it is started again.
C38_NoCallbackAfterStop ==
    q.last.a # NULL => q.last.was_started

\* C38 (what holds): the callback of a stopped animation is called only
\* for a timer event that was posted before the stop, and the timer of a
\* stopped animation is never armed.
C38_OnlyPostedEvents ==
    /\ q.last.a # NULL => (q.last.was_started \/ ~q.last.was_quiet)
    /\ \A a \in q.stopped : animations[a].timer = "stopped"
    /\ q.asserts

\* A callback was called for an animation that the user program had
\* stopped after its timer event was posted.
C38_CalledAfterStop ==
    /\ q.last.a # NULL /\ ~q.last.was_started
    /\ ~q.last.was_selfstopped

====
